---- MODULE Spec2Model ----
(***************************************************************************)
(* State-machine model of stormatter: Lexer, Token, the two Formatters,    *)
(* Parser and TokenStream (parsing/), PathsDatParser and the paths.dat     *)
(* manager with its history (study_manager/).                              *)
(* Source text is a sequence of one-character strings; Python's 0-based    *)
(* offsets are kept, so source[i] of the code is source[i + 1] here.       *)
(***************************************************************************)
EXTENDS Integers, Sequences, FiniteSets, TLC

VARIABLES
    lexer,      \* the Lexer object: source and cursor fields
    yielded,    \* tokens handed out by next(lexer) to a direct caller, in order
    stopped,    \* TRUE once next(lexer) has signalled StopIteration to that caller
    fmt,        \* the Formatter object built over lexer, or NoFormatter
    hist,       \* one record per completed iteration of the format loop
    result,     \* value returned by format(), or NoResult
    raised,     \* name of an exception that escaped an operation, or "none"
    config,     \* the keyword arguments the caller gives to Formatter(lexer, ...)
    parser,     \* the Parser object, or NoParser
    last_call,  \* the last Parser method called and what it returned
    list_count, \* number of list objects the Parser operations have created
    paths_dat,  \* text of the paths.dat file of the PathsDatManager
    files,      \* the other files of the file system: path -> contents
    history,    \* the PathsDatHistory object of the manager
    history_disk, \* the history file, as save() wrote it last
    mgr_call,   \* the last history or manager operation called, with its name argument
    sfmt,       \* the structured Formatter (formatting/formatter.py), or NoFormatter
    shist,      \* the (cursor, level, flag) state after each iteration of format_tokens()
    sresult,    \* value returned by format_tokens(), or NoStructuredResult
    calls,      \* per formatter, the calls that returned before the one under way
    token_stream, \* the TokenStream object, or NoStream
    stream_call, \* the last TokenStream method called, its arguments and its outcome
    slice_call  \* the last Token.to_byte_slice call: token, source and outcome

formatterVars == <<lexer, yielded, stopped, fmt, hist, result, raised, config>>
parserVars == <<parser, last_call, list_count>>
managerVars == <<paths_dat, files, history, history_disk, mgr_call>>
structuredVars == <<sfmt, shist, sresult, calls>>
streamVars == <<token_stream, stream_call, slice_call>>
vars == <<formatterVars, parserVars, managerVars, structuredVars, streamVars>>

----------------------------------------------------------------------------
(* Bounds of the explored inputs.                                          *)

MaxLen == 3
MaxFrags == 3
MaxCalls == 2

----------------------------------------------------------------------------
(* Characters and Python's str predicates, on the modelled alphabet.       *)

Letters ==
    {"a", "b", "c", "d", "e", "f", "g", "h", "i", "j", "k", "l", "m", "n", "o",
     "p", "q", "r", "s", "t", "u", "v", "w", "x", "y", "z", "E", "N", "D"}
Digits == {"0", "1", "2", "3", "4", "5", "6", "7", "8", "9"}
Spaces == {" ", "\t", "\n", "\r"}

isspace(c) == c \in Spaces
isalpha(c) == c \in Letters
isdigit(c) == c \in Digits
isalnum(c) == isalpha(c) \/ isdigit(c)

lower_char(c) ==
    CASE c = "E" -> "e"
      [] c = "N" -> "n"
      [] c = "D" -> "d"
      [] OTHER -> c

lower(s) == [i \in 1..Len(s) |-> lower_char(s[i])]

Max(a, b) == IF a >= b THEN a ELSE b
Min(a, b) == IF a <= b THEN a ELSE b

(* Python's s[a:b]: a negative end counts from len(s), and both ends clamp *)
(* to 0..len(s).                                                           *)
Slice(s, a, b) ==
    LET at(i) == IF i < 0 THEN Max(i + Len(s), 0) ELSE Min(i, Len(s))
    IN SubSeq(s, at(a) + 1, at(b))

RECURSIVE Concat(_)
Concat(ss) == IF ss = <<>> THEN <<>> ELSE Head(ss) \o Concat(Tail(ss))

Repeat(c, n) == [i \in 1..n |-> c]

----------------------------------------------------------------------------
(* Lexer (lexer.py).                                                       *)

NewLexer(source) ==
    [source |-> source, current_index |-> 0, prev_index |-> 0,
     line_number |-> 1, prev_line_number |-> 1,
     byte_offset |-> 0, prev_byte_offset |-> 0]

is_in_bounds(lx) == lx.current_index < Len(lx.source)

peek(lx) == lx.source[lx.current_index + 1]

advance(lx) ==
    [lx EXCEPT !.current_index = @ + 1, !.byte_offset = @ + 1]

advance_by(lx, count) ==
    [lx EXCEPT !.current_index = @ + count, !.byte_offset = @ + count]

match(lx, option) ==
    /\ lx.current_index + Len(option) <= Len(lx.source)
    /\ Slice(lx.source, lx.current_index, lx.current_index + Len(option)) = option

(* A token-producing call returns the advanced lexer, the token and the    *)
(* exception it raised, if any.                                            *)
NoToken == [type |-> "None"]

(* A raise that leaves the lexer rewound to the start of its source.       *)
Raise_rewinds(lx, exc) == [lx |-> [lx EXCEPT !.current_index = 0], tok |-> NoToken, exc |-> exc]

Raise(lx, exc) == [lx |-> lx, tok |-> NoToken, exc |-> exc]

(* make_token that forgets to move the previous-boundary marker.           *)
make_token_keeps_prev_index(lx, tok_type) ==
    [lx  |-> [lx EXCEPT !.prev_line_number = lx.line_number,
                        !.prev_byte_offset = lx.byte_offset],
     tok |-> [type |-> tok_type,
              start_index |-> lx.prev_index,
              end_index |-> lx.current_index,
              start_line |-> lx.prev_line_number,
              start_col |-> lx.prev_byte_offset,
              end_line |-> lx.line_number,
              end_col |-> lx.byte_offset],
     exc |-> "none"]

make_token(lx, tok_type) ==
    [lx  |-> [lx EXCEPT !.prev_index = lx.current_index,
                        !.prev_line_number = lx.line_number,
                        !.prev_byte_offset = lx.byte_offset],
     tok |-> [type |-> tok_type,
              start_index |-> lx.prev_index,
              end_index |-> lx.current_index,
              start_line |-> lx.prev_line_number,
              start_col |-> lx.prev_byte_offset,
              end_line |-> lx.line_number,
              end_col |-> lx.byte_offset],
     exc |-> "none"]

RECURSIVE identifier_loop(_)
identifier_loop(lx) ==
    IF is_in_bounds(lx) /\ (isalnum(peek(lx)) \/ peek(lx) = "_")
    THEN identifier_loop(advance(lx))
    ELSE lx

identifier(lx) == make_token(identifier_loop(lx), "IDENT")

(* The loop of string that skips the character after a backslash.          *)
RECURSIVE string_loop_with_escapes(_)
string_loop_with_escapes(lx) ==
    IF is_in_bounds(lx) /\ peek(lx) # "\""
    THEN string_loop_with_escapes(IF peek(lx) = "\\" THEN advance_by(lx, 2)
                                  ELSE advance(lx))
    ELSE lx

RECURSIVE string_loop(_)
string_loop(lx) ==
    IF is_in_bounds(lx) /\ peek(lx) # "\""
    THEN string_loop(advance(lx))
    ELSE lx

string(lx) == make_token(advance(string_loop(advance(lx))), "STRING")

RECURSIVE number_loop(_)
number_loop(lx) ==
    IF is_in_bounds(lx) /\ isdigit(peek(lx))
    THEN number_loop(advance(lx))
    ELSE lx

(* number that takes a run of digits for a float constant.                 *)
number_as_float(lx) == make_token(number_loop(lx), "FCONST")

number(lx) == make_token(number_loop(lx), "ICONST")

punctuator(lx) == make_token(advance(lx), "PUNCTUATOR")

RECURSIVE whitespace_loop(_)
whitespace_loop(lx) ==
    IF is_in_bounds(lx) /\ isspace(peek(lx))
    THEN whitespace_loop(advance(lx))
    ELSE lx

(* whitespace that takes one character.                                    *)
whitespace_one_character(lx) == make_token(advance(lx), "WHITESPACE")

whitespace(lx) == make_token(whitespace_loop(lx), "WHITESPACE")

RECURSIVE line_comment_loop(_)
line_comment_loop(lx) ==
    IF is_in_bounds(lx) /\ peek(lx) \notin {"\r", "\n"}
    THEN line_comment_loop(advance(lx))
    ELSE lx

line_comment(lx) ==
    IF ~match(lx, <<"/", "/">>)
    THEN Raise(lx, "ValueError")
    ELSE make_token(line_comment_loop(advance_by(lx, 2)), "LINECOMMENT")

RECURSIVE block_comment_loop(_)
block_comment_loop(lx) ==
    IF ~is_in_bounds(lx) THEN lx
    ELSE IF match(lx, <<"*", "/">>) THEN advance_by(lx, 2)
    ELSE block_comment_loop(advance(lx))

block_comment(lx) ==
    IF ~match(lx, <<"/", "*">>)
    THEN Raise(lx, "ValueError")
    ELSE make_token(block_comment_loop(advance_by(lx, 2)), "BLOCKCOMMENT")

PunctuatorChars ==
    {"{", "}", "[", "]", "(", ")", ";", ",", "+", "-", "*", "/", "=", "%",
     "<", ">", "!", "&", "|", "^", "~"}

(* __next__ that takes any "/" for the start of a line comment.           *)
next_slash_is_comment(lx) ==
    IF ~is_in_bounds(lx) THEN Raise(lx, "StopIteration")
    ELSE IF peek(lx) = "/" THEN line_comment(lx)
    ELSE IF match(lx, <<"/", "*">>) THEN block_comment(lx)
    ELSE LET char == peek(lx) IN
         IF isspace(char) THEN whitespace(lx)
         ELSE IF isalpha(char) \/ char = "_" THEN identifier(lx)
         ELSE IF isdigit(char) THEN number(lx)
         ELSE IF char = "\"" THEN string(lx)
         ELSE IF char \in PunctuatorChars THEN punctuator(lx)
         ELSE make_token(advance(lx), "PUNCTUATOR")

(* Lexer.__next__; StopIteration is reported through exc.                  *)
next(lx) ==
    IF ~is_in_bounds(lx) THEN Raise(lx, "StopIteration")
    ELSE IF match(lx, <<"/", "/">>) THEN line_comment(lx)
    ELSE IF match(lx, <<"/", "*">>) THEN block_comment(lx)
    ELSE LET char == peek(lx) IN
         IF isspace(char) THEN whitespace(lx)
         ELSE IF isalpha(char) \/ char = "_" THEN identifier(lx)
         ELSE IF isdigit(char) THEN number(lx)
         ELSE IF char = "\"" THEN string(lx)
         ELSE IF char \in PunctuatorChars THEN punctuator(lx)
         ELSE make_token(advance(lx), "PUNCTUATOR")

(* list(lexer): pull tokens until StopIteration; any other exception       *)
(* propagates to the caller.                                               *)
RECURSIVE list_lexer(_, _)
list_lexer(lx, acc) ==
    LET r == next(lx) IN
    IF r.exc = "StopIteration" THEN [lx |-> lx, tokens |-> acc, exc |-> "none"]
    ELSE IF r.exc # "none" THEN [lx |-> r.lx, tokens |-> acc, exc |-> r.exc]
    ELSE list_lexer(r.lx, Append(acc, r.tok))

(* Token.to_byte_slice (token.py).                                         *)
to_byte_slice(tok, source) ==
    IF tok.start_index >= Len(source) \/ tok.end_index > Len(source)
    THEN <<>>
    ELSE Slice(source, tok.start_index, tok.end_index)

----------------------------------------------------------------------------
(* Formatter (formatter.py).                                               *)

NoFormatter == [type |-> "None"]
NoResult == [returned |-> FALSE, text |-> <<>>]

EOFToken ==
    [type |-> "EOF", start_index |-> 0, end_index |-> 0, start_line |-> 0,
     start_col |-> 0, end_line |-> 0, end_col |-> 0]

(* Formatter(lexer, ...) with the dataclass defaults for indent_level,     *)
(* output and current_token_index; __post_init__ stores list(lexer).       *)
Formatter(cfg, tokens) ==
    [type |-> "Formatter",
     tab_display_size |-> cfg.tab_display_size,
     use_tabs |-> cfg.use_tabs,
     indent_section_blocks |-> cfg.indent_section_blocks,
     indent_level |-> 0,
     output |-> <<>>,
     tokens |-> tokens,
     current_token_index |-> 0,
     dedent_accounted_for |-> FALSE]

peek_token(f, offset) ==
    LET index == f.current_token_index + offset IN
    IF 0 <= index /\ index < Len(f.tokens) THEN f.tokens[index + 1] ELSE NoToken

(* consume_token that returns the token and leaves the cursor.             *)
consume_token_keeps_cursor(f) ==
    IF f.current_token_index < Len(f.tokens)
    THEN [f |-> f, tok |-> f.tokens[f.current_token_index + 1]]
    ELSE [f |-> f, tok |-> EOFToken]

consume_token(f) ==
    IF f.current_token_index < Len(f.tokens)
    THEN [f |-> [f EXCEPT !.current_token_index = @ + 1],
          tok |-> f.tokens[f.current_token_index + 1]]
    ELSE [f |-> f, tok |-> EOFToken]

RECURSIVE consume_tokens(_, _)
consume_tokens(f, n) ==
    IF n <= 0 THEN f ELSE consume_tokens(consume_token(f).f, n - 1)

emit(f, text) == [f EXCEPT !.output = @ \o text]

(* emit_indent that ignores tab_display_size in space mode.               *)
emit_indent_one_space_per_level(f) ==
    IF f.use_tabs
    THEN emit(f, Repeat("\t", f.indent_level))
    ELSE emit(f, Repeat(" ", f.indent_level))

emit_indent(f) ==
    IF f.use_tabs
    THEN emit(f, Repeat("\t", f.indent_level))
    ELSE emit(f, Repeat(" ", f.indent_level * f.tab_display_size))

token_text_of(tok, source) == Slice(source, tok.start_index, tok.end_index)

ClosingBrackets == {<<"}">>, <<"]">>, <<")">>}
OpeningBrackets == {<<"{">>, <<"[">>, <<"(">>}
BEGIN == <<"b", "e", "g", "i", "n">>
END == <<"e", "n", "d">>

HasNewline(text) == \E i \in 1..Len(text) : text[i] = "\n"

(* Newline lookahead that takes `end` for a dedent in either mode.         *)
dedent_ahead_in_either_mode(f, source) ==
    LET next_token == peek_token(f, 0) IN
    /\ next_token # NoToken
    /\ \/ /\ next_token.type = "PUNCTUATOR"
          /\ token_text_of(next_token, source) \in ClosingBrackets
       \/ /\ next_token.type = "IDENT"
          /\ lower(token_text_of(next_token, source)) = END

(* The newline lookahead of the WHITESPACE branch: is the next token one   *)
(* that causes a dedent?                                                   *)
dedent_ahead(f, source) ==
    LET next_token == peek_token(f, 0) IN
    /\ next_token # NoToken
    /\ \/ /\ next_token.type = "PUNCTUATOR"
          /\ token_text_of(next_token, source) \in ClosingBrackets
       \/ /\ f.indent_section_blocks
          /\ next_token.type = "IDENT"
          /\ lower(token_text_of(next_token, source)) = END

(* WHITESPACE branch that keeps an intra-line run as it is.                *)
whitespace_branch_keeps_run(f, token_text, source) ==
    IF HasNewline(token_text)
    THEN LET f1 == emit(f, <<"\n">>)
             f2 == IF dedent_ahead(f1, source)
                   THEN [f1 EXCEPT !.indent_level = Max(0, @ - 1),
                                   !.dedent_accounted_for = TRUE]
                   ELSE f1
         IN emit_indent(f2)
    ELSE emit(f, token_text)

whitespace_branch(f, token_text, source) ==
    IF HasNewline(token_text)
    THEN LET f1 == emit(f, <<"\n">>)
             f2 == IF dedent_ahead(f1, source)
                   THEN [f1 EXCEPT !.indent_level = Max(0, @ - 1),
                                   !.dedent_accounted_for = TRUE]
                   ELSE f1
         IN emit_indent(f2)
    ELSE emit(f, <<" ">>)

(* The while loop that finds the next non-whitespace token, starting at    *)
(* peek_token(1).                                                          *)
RECURSIVE skip_whitespace(_, _)
skip_whitespace(f, offset) ==
    IF peek_token(f, offset) # NoToken /\ peek_token(f, offset).type = "WHITESPACE"
    THEN skip_whitespace(f, offset + 1)
    ELSE offset

ident_branch(f, token_text, source) ==
    IF ~f.indent_section_blocks THEN emit(f, token_text)
    ELSE
    LET offset == skip_whitespace(f, 1)
        next_token == peek_token(f, offset)
        next_text == token_text_of(next_token, source)
    IN
    IF next_token # NoToken /\ next_token.type = "IDENT" /\ lower(token_text) = BEGIN
    THEN LET f1 == emit(f, token_text \o <<" ">> \o next_text)
             f2 == consume_tokens(f1, offset)
             f3 == consume_token(f2).f
         IN [f3 EXCEPT !.indent_level = @ + 1]
    ELSE IF next_token # NoToken /\ next_token.type = "IDENT" /\ lower(token_text) = END
    THEN LET f1 == IF ~f.dedent_accounted_for
                   THEN [f EXCEPT !.indent_level = Max(0, @ - 1)]
                   ELSE f
             f2 == [f1 EXCEPT !.dedent_accounted_for = FALSE]
             f3 == emit(f2, token_text \o <<" ">> \o next_text)
             f4 == consume_tokens(f3, offset)
         IN consume_token(f4).f
    ELSE emit(f, token_text)

(* PUNCTUATOR branch that decrements without looking at the one-shot flag. *)
punctuator_branch_ignores_flag(f, token_text) ==
    IF token_text \in OpeningBrackets
    THEN [emit(f, token_text) EXCEPT !.indent_level = @ + 1]
    ELSE IF token_text \in ClosingBrackets
    THEN emit([f EXCEPT !.indent_level = Max(0, @ - 1),
                        !.dedent_accounted_for = FALSE], token_text)
    ELSE emit(f, token_text)

(* PUNCTUATOR branch whose decrement is not clamped at zero.               *)
punctuator_branch_no_floor(f, token_text) ==
    IF token_text \in OpeningBrackets
    THEN [emit(f, token_text) EXCEPT !.indent_level = @ + 1]
    ELSE IF token_text \in ClosingBrackets
    THEN LET f1 == IF ~f.dedent_accounted_for
                   THEN [f EXCEPT !.indent_level = @ - 1]
                   ELSE f
         IN emit([f1 EXCEPT !.dedent_accounted_for = FALSE], token_text)
    ELSE emit(f, token_text)

punctuator_branch(f, token_text) ==
    IF token_text \in OpeningBrackets
    THEN [emit(f, token_text) EXCEPT !.indent_level = @ + 1]
    ELSE IF token_text \in ClosingBrackets
    THEN LET f1 == IF ~f.dedent_accounted_for
                   THEN [f EXCEPT !.indent_level = Max(0, @ - 1)]
                   ELSE f
         IN emit([f1 EXCEPT !.dedent_accounted_for = FALSE], token_text)
    ELSE emit(f, token_text)

verbatim_branch(f, token_text) == emit(f, token_text)

(* One iteration of the while loop of format(): the formatter after it,    *)
(* and whether the iteration left the loop with break.                     *)
format_iteration(f0, source) ==
    LET c == consume_token(f0)
        f == c.f
        token == c.tok
        token_text == token_text_of(token, source)
    IN
    IF token.type = "WHITESPACE"
    THEN [f |-> whitespace_branch(f, token_text, source), brk |-> FALSE]
    ELSE IF token.type = "IDENT"
    THEN [f |-> ident_branch(f, token_text, source), brk |-> FALSE]
    ELSE IF token.type \in {"STRING", "ICONST", "FCONST"}
    THEN [f |-> verbatim_branch(f, token_text), brk |-> FALSE]
    ELSE IF token.type = "PUNCTUATOR"
    THEN [f |-> punctuator_branch(f, token_text), brk |-> FALSE]
    ELSE IF token.type \in {"LINECOMMENT", "BLOCKCOMMENT"}
    THEN [f |-> verbatim_branch(f, token_text), brk |-> FALSE]
    ELSE IF token.type = "EOF"
    THEN [f |-> f, brk |-> TRUE]
    ELSE [f |-> emit(f, token_text), brk |-> FALSE]

(* format() run to its return on formatter f.                              *)
RECURSIVE format(_, _)
format(f, source) ==
    IF f.current_token_index < Len(f.tokens)
    THEN LET r == format_iteration(f, source) IN
         IF r.brk THEN r.f.output ELSE format(r.f, source)
    ELSE f.output

(* Formatter(Lexer(source), config).format() as a function of its inputs.  *)
FormatSource(source, cfg) ==
    format(Formatter(cfg, list_lexer(NewLexer(source), <<>>).tokens), source)

----------------------------------------------------------------------------
(* Inputs: source texts and configurations.                                *)

SeqsUpTo(S, n) == UNION {[1..k -> S] : k \in 0..n}

(* Every text of at most MaxLen characters over CharAlphabet.              *)
CharAlphabet == {"a", "1", " ", "\n", "\"", "/", "*", "}"}
CharSources == SeqsUpTo(CharAlphabet, MaxLen)

(* Every concatenation of at most MaxFrags fragments of a lexicon.         *)
FragSources(lexicon) == {Concat(fs) : fs \in SeqsUpTo(lexicon, MaxFrags)}

BracketLexicon ==
    {<<"{">>, <<"}">>, <<"\n">>, <<" ">>, <<"x">>, <<"/", "/">>, <<"\r">>}
SectionLexicon ==
    {BEGIN, END, <<" ">>, <<"\n">>, <<"s">>, <<";">>, <<"}">>, <<"\"", "\"">>}

(* Longer texts, among them inputs of tests/test_formatter.py (shortened   *)
(* to the modelled alphabet).                                              *)
Corpus ==
    {<<"i", "n", "t", " ", "x", " ", "=", " ", "1", ";">>,
     <<"a", " ", "(", "b", ")", " ", "{", "\n", " ", " ", "c", "[", "1", "]", ";", "\n", "}">>,
     <<"{", "\n", "{", "\n", "x", "\n", "}", "\n", "}">>,
     <<"b", "e", "g", "i", "n", " ", "s", "\n", "x", " ", "=", " ", "1", ";", "\n", "E", "N", "D", " ", "s">>,
     <<"{", "{", "\n", "e", "n", "d", " ", ";", "e", "n", "d", " ", "s">>,
     <<"b", "e", "g", "i", "n", ";", "x">>,
     <<"/", "/", "c", "\r", "{", "\n">>,
     <<"/", "*", " ", "a", "\n", "b", " ", "*", "/", "\n", "x">>,
     <<"\"", "a", "\"", " ", "1", "0">>,
     <<"}", "\n", ")", "\n", "]">>,
     <<"x", " ", " ", "b", "e", "g", "i", "n", "\n", " ", "s">>,
     <<"_", "a", "1", " ", "/", "x", "@", ".", "5">>,
     <<"\"", "a", "\\", "\"", "/", "/", "b", "\"">>,
     <<"\"", "/", "*", "\"", " ", "x">>}

Configs(sizes, tabs, sections) ==
    [tab_display_size : sizes, use_tabs : tabs, indent_section_blocks : sections]

TabSizes == {2, 4}
DefaultConfig ==
    [tab_display_size |-> 4, use_tabs |-> TRUE, indent_section_blocks |-> FALSE]

SpacesConfig ==
    [tab_display_size |-> 2, use_tabs |-> FALSE, indent_section_blocks |-> FALSE]

Inputs ==
    (CharSources \X {DefaultConfig})
    \cup (FragSources(BracketLexicon) \X {DefaultConfig, SpacesConfig})
    \cup (FragSources(SectionLexicon) \X Configs({4}, {TRUE}, BOOLEAN))
    \cup (Corpus \X Configs(TabSizes, BOOLEAN, BOOLEAN))

----------------------------------------------------------------------------
(* The state machine of the Lexer and the Formatter.                       *)

NoParser == [type |-> "None"]
NoList == [id |-> 0, items |-> <<>>]
NoCall ==
    [op |-> "none", prev |-> "none", cached_before |-> FALSE,
     arg |-> NoList, list |-> NoList, text |-> <<>>]

(* No Parser exists in the runs of the Lexer and the Formatter.            *)
ParserIdle ==
    /\ parser = NoParser
    /\ last_call = NoCall
    /\ list_count = 0

EmptyDict == [x \in {} |-> <<>>]
NoHistory == [known |-> FALSE, entries |-> EmptyDict]
NoHistoryFile == [exists |-> FALSE, data |-> NoHistory]
NoManagerCall == [op |-> "none", name |-> <<>>]

(* No PathsDatManager exists in the runs of the Lexer, the Formatter and   *)
(* the Parser.                                                             *)
ManagerIdle ==
    /\ paths_dat = <<>>
    /\ files = EmptyDict
    /\ history = NoHistory
    /\ history_disk = NoHistoryFile
    /\ mgr_call = NoManagerCall

(* No structured Formatter exists and no call has returned.                *)
NoStructuredResult == [returned |-> FALSE, pairs |-> <<>>]
NoCalls == [legacy |-> <<>>, structured |-> <<>>]

StructuredIdle ==
    /\ sfmt = NoFormatter
    /\ shist = <<>>
    /\ sresult = NoStructuredResult
    /\ calls = NoCalls

NoStream == [type |-> "None"]
NoStreamCall == [op |-> "none"]

(* No TokenStream is held by a direct caller and no token was sliced.      *)
StreamIdle ==
    /\ token_stream = NoStream
    /\ stream_call = NoStreamCall
    /\ slice_call = NoStreamCall

(* No call of the structured Formatter is under way: the caller of the    *)
(* two formatters is one thread, and a call runs to its return before the  *)
(* caller does anything else.                                              *)
StructuredAtRest == sfmt = NoFormatter \/ sresult.returned

(* No call of the Formatter of formatter.py is under way.                  *)
LegacyAtRest == fmt = NoFormatter \/ result.returned

Init ==
    /\ ParserIdle
    /\ ManagerIdle
    /\ StructuredIdle
    /\ StreamIdle
    /\ \E inp \in Inputs : lexer = NewLexer(inp[1]) /\ config = inp[2]
    /\ yielded = <<>>
    /\ stopped = FALSE
    /\ fmt = NoFormatter
    /\ hist = <<>>
    /\ result = NoResult
    /\ raised = "none"

(* A caller pulls one token: next(lexer). Explored before the Formatter    *)
(* is built.                                                               *)
LexerNext ==
    /\ fmt = NoFormatter
    /\ raised = "none"
    /\ LET r == next(lexer) IN
       /\ lexer' = r.lx
       /\ yielded' = IF r.exc = "none" THEN Append(yielded, r.tok) ELSE yielded
       /\ stopped' = (stopped \/ r.exc = "StopIteration")
       /\ raised' = IF r.exc \in {"none", "StopIteration"} THEN "none" ELSE r.exc
    /\ UNCHANGED <<fmt, hist, result, config>>
    /\ UNCHANGED <<parserVars, managerVars, structuredVars, streamVars>>

(* Formatter(lexer, **config): __post_init__ drains the lexer.             *)
NewFormatter ==
    /\ fmt = NoFormatter
    /\ raised = "none"
    /\ StructuredAtRest
    /\ LET r == list_lexer(lexer, <<>>) IN
       /\ lexer' = r.lx
       /\ raised' = r.exc
       /\ fmt' = IF r.exc = "none" THEN Formatter(config, r.tokens) ELSE fmt
    /\ UNCHANGED <<yielded, stopped, hist, result, config>>
    /\ UNCHANGED <<parserVars, managerVars, structuredVars, streamVars>>

(* One iteration of the while loop of format().                            *)
FormatStep ==
    /\ fmt # NoFormatter
    /\ ~result.returned
    /\ raised = "none"
    /\ fmt.current_token_index < Len(fmt.tokens)
    /\ LET r == format_iteration(fmt, lexer.source) IN
       /\ fmt' = r.f
       /\ hist' = Append(hist,
              [index |-> fmt.current_token_index,
               consumed |-> r.f.current_token_index - fmt.current_token_index,
               level_before |-> fmt.indent_level,
               level_after |-> r.f.indent_level,
               flag_before |-> fmt.dedent_accounted_for,
               flag_after |-> r.f.dedent_accounted_for,
               emitted |-> SubSeq(r.f.output, Len(fmt.output) + 1, Len(r.f.output))])
       /\ result' = IF r.brk THEN [returned |-> TRUE, text |-> r.f.output] ELSE result
    /\ UNCHANGED <<lexer, yielded, stopped, raised, config>>
    /\ UNCHANGED <<parserVars, managerVars, structuredVars, streamVars>>

(* The loop guard fails and format() returns self.output.                  *)
FormatReturn ==
    /\ fmt # NoFormatter
    /\ ~result.returned
    /\ raised = "none"
    /\ ~(fmt.current_token_index < Len(fmt.tokens))
    /\ result' = [returned |-> TRUE, text |-> fmt.output]
    /\ UNCHANGED <<lexer, yielded, stopped, fmt, hist, raised, config>>
    /\ UNCHANGED <<parserVars, managerVars, structuredVars, streamVars>>

Next == LexerNext \/ NewFormatter \/ FormatStep \/ FormatReturn

Spec == Init /\ [][Next]_vars

----------------------------------------------------------------------------
(* Vocabulary of the properties.                                           *)

Source == lexer.source

(* The Formatter was built over a Lexer nobody had pulled a token from.    *)
FreshFormatter == fmt # NoFormatter /\ yielded = <<>>

Returned == fmt # NoFormatter /\ result.returned

Tokenize(source) == list_lexer(NewLexer(source), <<>>).tokens

Texts(tokens, source) ==
    [i \in 1..Len(tokens) |-> token_text_of(tokens[i], source)]

IsNotWhitespace(tok) == tok.type # "WHITESPACE"

(* The texts of the non-whitespace tokens of a source text, in order.      *)
NonWhitespaceTexts(source) ==
    Texts(SelectSeq(Tokenize(source), IsNotWhitespace), source)

(* The token the k-th iteration of the format loop took from the list.     *)
HistToken(k) == fmt.tokens[hist[k].index + 1]
HistText(k) == token_text_of(HistToken(k), Source)

Indentation(level) ==
    IF fmt.use_tabs THEN Repeat("\t", level)
    ELSE Repeat(" ", level * fmt.tab_display_size)

----------------------------------------------------------------------------
C2_FormatIsTotal ==
    /\ raised = "none"
    /\ fmt # NoFormatter =>
        /\ result.returned \/ ENABLED (FormatStep \/ FormatReturn)
        /\ Len(hist) <= fmt.current_token_index
        /\ fmt.current_token_index <= Len(fmt.tokens)
        /\ (result.returned /\ Source = <<>>) => result.text = <<>>

(* format() has returned on a source that ends inside a block comment.     *)
C2_Witness ==
    /\ Returned /\ FreshFormatter
    /\ Len(fmt.tokens) >= 2
    /\ fmt.tokens[Len(fmt.tokens)].type = "BLOCKCOMMENT"
    /\ ~(Len(Source) >= 4 /\ SubSeq(Source, Len(Source) - 1, Len(Source)) = <<"*", "/">>)

(* C3: the non-whitespace token texts of the formatted output are, in      *)
(* order, the non-whitespace token texts of the input.                     *)
C3_SameNonWhitespaceTokens ==
    (Returned /\ FreshFormatter) =>
        NonWhitespaceTexts(result.text) = NonWhitespaceTexts(Source)

IsOpening(tok) ==
    tok.type = "PUNCTUATOR" /\ token_text_of(tok, Source) \in OpeningBrackets
IsClosing(tok) ==
    tok.type = "PUNCTUATOR" /\ token_text_of(tok, Source) \in ClosingBrackets
IsNewlineWhitespace(tok) ==
    tok.type = "WHITESPACE" /\ HasNewline(token_text_of(tok, Source))
IsSectionWord(tok, word) ==
    tok.type = "IDENT" /\ lower(token_text_of(tok, Source)) = word

(* Bracket depth after the first n tokens: 0 at the start, one more after  *)
(* an opening bracket, one less (not below 0) at a closing bracket.        *)
RECURSIVE BracketDepth(_, _)
BracketDepth(tokens, n) ==
    IF n = 0 THEN 0
    ELSE LET d == BracketDepth(tokens, n - 1) IN
         IF IsOpening(tokens[n]) THEN d + 1
         ELSE IF IsClosing(tokens[n]) THEN Max(0, d - 1)
         ELSE d

(* The indent level the iteration hist[k] started from, or, when the       *)
(* iteration before it was the newline whitespace directly in front of its *)
(* token, the level that one started from.                                 *)
LevelBeforeLine(k) ==
    IF k > 1 /\ hist[k - 1].index = hist[k].index - 1 /\ IsNewlineWhitespace(HistToken(k - 1))
    THEN hist[k - 1].level_before
    ELSE hist[k].level_before

(* C4: with indent_section_blocks=false the indentation emitted after a    *)
(* newline whitespace token is the bracket depth at that point, taken      *)
(* after the closing bracket when one starts the line; an opening bracket  *)
(* raises the level by one and a closing bracket lowers it by one in       *)
(* total (floored at 0), with or without a newline in front of it.         *)
C4_IndentIsBracketDepth ==
    (fmt # NoFormatter /\ ~fmt.indent_section_blocks) =>
        \A k \in 1..Len(hist) :
            LET i == hist[k].index
                tok == HistToken(k)
                closes == i + 1 < Len(fmt.tokens) /\ IsClosing(fmt.tokens[i + 2])
            IN
            /\ IsNewlineWhitespace(tok) =>
                   hist[k].emitted = <<"\n">> \o
                       Indentation(BracketDepth(fmt.tokens, IF closes THEN i + 2 ELSE i + 1))
            /\ IsOpening(tok) => hist[k].level_after = hist[k].level_before + 1
            /\ IsClosing(tok) =>
                   /\ hist[k].level_after = Max(0, LevelBeforeLine(k) - 1)
                   /\ hist[k].level_after = BracketDepth(fmt.tokens, i + 1)

(* A nested closing bracket on a line of its own has been processed and    *)
(* leaves the level at 1.                                                  *)
C4_Witness ==
    /\ fmt # NoFormatter /\ ~fmt.indent_section_blocks
    /\ \E k \in 2..Len(hist) :
        /\ IsClosing(HistToken(k))
        /\ hist[k].flag_before
        /\ LevelBeforeLine(k) = 2
        /\ hist[k].level_after = 1

(* What the whitespace branch is to emit for the token of hist[k].         *)
CollapsedWhitespace(k) ==
    IF IsNewlineWhitespace(HistToken(k))
    THEN <<"\n">> \o Indentation(hist[k].level_after)
    ELSE <<" ">>

(* The token at 0-based index i was consumed inside the merged pair that   *)
(* the iteration hist[k] emitted.                                          *)
InsideMergedPair(i, k) ==
    /\ hist[k].consumed > 1
    /\ hist[k].index < i /\ i < hist[k].index + hist[k].consumed
    /\ fmt.indent_section_blocks
    /\ (IsSectionWord(HistToken(k), BEGIN) \/ IsSectionWord(HistToken(k), END))
    /\ hist[k].emitted = HistText(k) \o <<" ">> \o
           token_text_of(fmt.tokens[hist[k].index + hist[k].consumed], Source)

(* C5 as stated: every whitespace token is emitted as one space when it    *)
(* has no newline (by an iteration of its own, or as the space inside a    *)
(* merged begin/end pair) and as one newline plus the indentation of the   *)
(* current level when it has one.                                          *)
C5_EveryWhitespaceCollapsed ==
    fmt # NoFormatter =>
        \A i \in 0..(fmt.current_token_index - 1) :
            fmt.tokens[i + 1].type = "WHITESPACE" =>
                \E k \in 1..Len(hist) :
                    \/ /\ hist[k].index = i
                       /\ hist[k].consumed = 1
                       /\ hist[k].emitted = CollapsedWhitespace(k)
                    \/ /\ InsideMergedPair(i, k)
                       /\ ~IsNewlineWhitespace(fmt.tokens[i + 1])

(* C5 (amended): every whitespace token the loop handles in an iteration   *)
(* of its own is emitted as one space (no newline) or as one newline plus  *)
(* the indentation of the current level; the only other whitespace tokens  *)
(* are those consumed when a begin/end identifier is merged with a         *)
(* following identifier, and the pair is emitted with exactly one space    *)
(* between the two identifiers, also when such a token holds a newline.    *)
C5_WhitespaceCollapsedOrMerged ==
    fmt # NoFormatter =>
        \A i \in 0..(fmt.current_token_index - 1) :
            fmt.tokens[i + 1].type = "WHITESPACE" =>
                \E k \in 1..Len(hist) :
                    \/ /\ hist[k].index = i
                       /\ hist[k].consumed = 1
                       /\ hist[k].emitted = CollapsedWhitespace(k)
                    \/ InsideMergedPair(i, k)

(* Both cases at once: a run of several spaces was emitted as one space,   *)
(* and a newline whitespace token was swallowed by a merged pair.          *)
C5_Witness ==
    /\ fmt # NoFormatter
    /\ \E k \in 1..Len(hist) :
        /\ HistToken(k).type = "WHITESPACE"
        /\ Len(HistText(k)) >= 2
        /\ hist[k].emitted = <<" ">>
    /\ \E k \in 1..Len(hist) :
        /\ hist[k].consumed > 1
        /\ IsNewlineWhitespace(fmt.tokens[hist[k].index + 2])
        /\ InsideMergedPair(hist[k].index + 1, k)

VerbatimKinds == {"STRING", "ICONST", "LINECOMMENT", "BLOCKCOMMENT"}

(* C6: string, integer-constant and comment tokens are emitted with        *)
(* exactly their source text, and processing them changes neither the      *)
(* indent level nor the dedent flag.                                       *)
C6_VerbatimTokens ==
    fmt # NoFormatter =>
        \A i \in 0..(fmt.current_token_index - 1) :
            fmt.tokens[i + 1].type \in VerbatimKinds =>
                \E k \in 1..Len(hist) :
                    /\ hist[k].index = i
                    /\ hist[k].emitted = token_text_of(fmt.tokens[i + 1], Source)
                    /\ hist[k].level_after = hist[k].level_before
                    /\ hist[k].flag_after = hist[k].flag_before

(* C7: the indentation emitted for level L is L tabs when use_tabs is      *)
(* true and L * tab_display_size spaces when it is false, and with         *)
(* use_tabs the returned text is the same for every tab_display_size.      *)
C7_IndentUnits ==
    fmt # NoFormatter =>
        /\ \A k \in 1..Len(hist) :
              (HistToken(k).type = "WHITESPACE" /\ hist[k].emitted # <<" ">>) =>
                  LET n == IF fmt.use_tabs THEN hist[k].level_after
                           ELSE hist[k].level_after * fmt.tab_display_size
                  IN /\ Len(hist[k].emitted) = 1 + n
                     /\ \A j \in 2..(1 + n) :
                            hist[k].emitted[j] = IF fmt.use_tabs THEN "\t" ELSE " "
        /\ (Returned /\ FreshFormatter /\ fmt.use_tabs) =>
              \A size \in TabSizes :
                  FormatSource(Source, [config EXCEPT !.tab_display_size = size])
                      = result.text

(* Space mode emitted the indentation of level 2.                          *)
C7_Witness ==
    /\ fmt # NoFormatter /\ ~fmt.use_tabs
    /\ \E k \in 1..Len(hist) :
        /\ IsNewlineWhitespace(HistToken(k))
        /\ hist[k].level_after = 2
        /\ Len(hist[k].emitted) = 1 + 2 * fmt.tab_display_size

(* The iteration hist[k] emitted a `word <name>` pair as one unit.         *)
IsPair(k, word) ==
    /\ fmt.indent_section_blocks
    /\ IsSectionWord(HistToken(k), word)
    /\ hist[k].consumed > 1

(* C8: with indent_section_blocks=true each `begin <name>` pair raises the *)
(* level by exactly one and each `end <name>` pair lowers it by exactly    *)
(* one (floored at 0) in total, the newline lookahead included.            *)
C8_SectionPairsCountOnce ==
    fmt # NoFormatter =>
        \A k \in 1..Len(hist) :
            /\ IsPair(k, BEGIN) => hist[k].level_after = hist[k].level_before + 1
            /\ IsPair(k, END) => hist[k].level_after = Max(0, LevelBeforeLine(k) - 1)

(* C9: formatting is idempotent under a fixed configuration: formatting   *)
(* the output of format() again gives the same text.                       *)
C9_Idempotent ==
    (Returned /\ FreshFormatter) => FormatSource(result.text, config) = result.text

(* C10: in every reachable state of a formatting pass the indent level is  *)
(* a non-negative integer.                                                 *)
C10_IndentNeverNegative ==
    fmt # NoFormatter =>
        /\ fmt.indent_level >= 0
        /\ \A k \in 1..Len(hist) : hist[k].level_before >= 0 /\ hist[k].level_after >= 0

(* A closing bracket met at level 0 without a newline in front of it: the  *)
(* decrement of the PUNCTUATOR branch was clamped.                         *)
C10_Witness ==
    /\ fmt # NoFormatter
    /\ \E k \in 1..Len(hist) :
        /\ IsClosing(HistToken(k))
        /\ ~hist[k].flag_before
        /\ hist[k].level_before = 0
        /\ hist[k].level_after = 0

(* Every token the lexer has handed out so far, to its caller or to the    *)
(* formatter.                                                              *)
ProducedTokens ==
    {yielded[i] : i \in 1..Len(yielded)} \cup
    (IF fmt = NoFormatter THEN {} ELSE {fmt.tokens[i] : i \in 1..Len(fmt.tokens)})

(* C11: every token produced by the lexer satisfies                        *)
(* 0 <= start_index <= end_index <= len(source).                           *)
C11_TokenSpansInSource ==
    \A tok \in ProducedTokens :
        /\ 0 <= tok.start_index
        /\ tok.start_index <= tok.end_index
        /\ tok.end_index <= Len(Source)

(* The string token tok has no closing quote: no quote character follows   *)
(* its opening one anywhere in the source.                                 *)
UnterminatedString(tok) ==
    /\ tok.type = "STRING"
    /\ \A i \in (tok.start_index + 2)..Len(Source) : Source[i] # "\""

(* The block comment token tok has no closing delimiter: no "*/" starts at *)
(* or after the character following its opening "/*".                      *)
UnterminatedBlockComment(tok) ==
    /\ tok.type = "BLOCKCOMMENT"
    /\ \A i \in (tok.start_index + 3)..(Len(Source) - 1) :
           ~(Source[i] = "*" /\ Source[i + 1] = "/")

(* C12: lexing a source with an unterminated string or block comment       *)
(* raises nothing, and the unterminated token is the last one yielded: it  *)
(* starts at its opening delimiter and ends exactly at the end of the      *)
(* input.                                                                  *)
C12_UnterminatedEndsAtInput ==
    /\ raised = "none"
    /\ \A i \in 1..Len(yielded) :
           (UnterminatedString(yielded[i]) \/ UnterminatedBlockComment(yielded[i])) =>
               /\ Source[yielded[i].start_index + 1] \in {"\"", "/"}
               /\ yielded[i].end_index = Len(Source)
               /\ stopped => i = Len(yielded)

(* C14: the text a formatting operation returns is the text formatting its *)
(* lexer's source under its configuration gives, whatever was done with    *)
(* that lexer before the formatter was built.                              *)
C14_ResultDependsOnSourceAndConfig ==
    Returned => result.text = FormatSource(Source, config)

----------------------------------------------------------------------------
(* The Parser base class (parsing/parser.py). A list object is a record    *)
(* of its identity and its items, so that "the same list" and "an equal    *)
(* list" are different things; n is the number of lists created so far.    *)

MaxLists == 5

(* Optional arguments: None, or a given value.                             *)
None == [given |-> FALSE, types |-> {}, list |-> NoList]
SomeTypes(types) == [given |-> TRUE, types |-> types, list |-> NoList]
SomeList(list) == [given |-> TRUE, types |-> {}, list |-> list]

(* Parser.__init__: self.tokens = [] is the list with identity id.         *)
NewParser(source, id) ==
    [type |-> "Parser",
     source |-> source,
     original_source |-> source,
     lexer |-> NewLexer(source),
     tokens |-> [id |-> id, items |-> <<>>],
     tokens_cached |-> FALSE]

tokenize_always_lexes(p, n) ==
    LET r == list_lexer(p.lexer, <<>>)
        q == [p EXCEPT !.lexer = r.lx,
                       !.tokens = [id |-> n + 1, items |-> r.tokens],
                       !.tokens_cached = TRUE]
    IN [p |-> q, list |-> q.tokens, n |-> n + 1]
tokenize(p, n) ==
    IF ~p.tokens_cached
    THEN LET r == list_lexer(p.lexer, <<>>)
             q == [p EXCEPT !.lexer = r.lx,
                            !.tokens = [id |-> n + 1, items |-> r.tokens],
                            !.tokens_cached = TRUE]
         IN [p |-> q, list |-> q.tokens, n |-> n + 1]
    ELSE [p |-> p, list |-> p.tokens, n |-> n]

refresh_tokens_keeps_lexer(p, n) ==
    tokenize([p EXCEPT !.tokens_cached = FALSE], n)
refresh_tokens(p, n) ==
    tokenize([p EXCEPT !.lexer = NewLexer(p.source), !.tokens_cached = FALSE], n)

filter_tokens(p, n, exclude_types, include_types) ==
    LET t == tokenize(p, n)
        tokens == t.list.items
        kept == IF include_types.given
                THEN SelectSeq(tokens, LAMBDA tok : tok.type \in include_types.types)
                ELSE IF exclude_types.given
                THEN SelectSeq(tokens, LAMBDA tok : tok.type \notin exclude_types.types)
                ELSE tokens
    IN [p |-> t.p, list |-> [id |-> t.n + 1, items |-> kept], n |-> t.n + 1]

tokens_to_source(p, tokens) ==
    LET ts == IF tokens.given THEN tokens.list.items ELSE p.tokens.items IN
    IF ts = <<>> THEN <<>>
    ELSE Concat([i \in 1..Len(ts) |-> to_byte_slice(ts[i], p.source)])

reset_source_keeps_cache(p, n) ==
    [p |-> [p EXCEPT !.source = p.original_source,
                     !.lexer = NewLexer(p.original_source)],
     n |-> n]
reset_source(p, n) ==
    [p |-> [p EXCEPT !.source = p.original_source,
                     !.lexer = NewLexer(p.original_source),
                     !.tokens_cached = FALSE,
                     !.tokens = [id |-> n + 1, items |-> <<>>]],
     n |-> n + 1]

(* Sources given to Parser(source) and assigned to parser.source.          *)
ParserSources ==
    { <<>>,
      <<"x", " ", "=", " ", "1">>,
      <<"/", "/", "c", "\n", "y">>,
      <<"a", " ", "\"", "b", "\"">>,
      <<"a", " ", "\"", "b">>,
      <<"/", "*", "c", "*", "/", "z">> }

(* Arguments given to filter_tokens(exclude_types, include_types).         *)
FilterArguments ==
    { <<None, None>>,
      <<SomeTypes({"WHITESPACE"}), None>>,
      <<None, SomeTypes({"IDENT"})>>,
      <<SomeTypes({"IDENT"}), SomeTypes({"IDENT", "STRING"})>> }

(* The Lexer and Formatter of the first state machine are not used in the  *)
(* runs of the Parser.                                                     *)
FormatterIdle ==
    /\ lexer = NewLexer(<<>>)
    /\ config = DefaultConfig
    /\ yielded = <<>>
    /\ stopped = FALSE
    /\ fmt = NoFormatter
    /\ hist = <<>>
    /\ result = NoResult
    /\ raised = "none"

(* The record of a call: the method, the method called before it, the      *)
(* cache flag it found, its list argument, and the list or text returned.  *)
Called(op, cached_before, arg, list, text) ==
    [op |-> op, prev |-> last_call.op, cached_before |-> cached_before,
     arg |-> arg, list |-> list, text |-> text]

(* parser = Parser(source)                                                 *)
InitParser ==
    /\ FormatterIdle
    /\ StructuredIdle
    /\ StreamIdle
    /\ ManagerIdle
    /\ \E source \in ParserSources : parser = NewParser(source, 1)
    /\ last_call = NoCall
    /\ list_count = 1

(* parser.tokenize()                                                       *)
ParserTokenize ==
    LET r == tokenize(parser, list_count) IN
    /\ r.n <= MaxLists
    /\ parser' = r.p
    /\ list_count' = r.n
    /\ last_call' = Called("tokenize", parser.tokens_cached, NoList, r.list, <<>>)
    /\ UNCHANGED <<formatterVars, managerVars, structuredVars, streamVars>>

(* parser.refresh_tokens()                                                 *)
ParserRefreshTokens ==
    LET r == refresh_tokens(parser, list_count) IN
    /\ r.n <= MaxLists
    /\ parser' = r.p
    /\ list_count' = r.n
    /\ last_call' = Called("refresh_tokens", parser.tokens_cached, NoList, r.list, <<>>)
    /\ UNCHANGED <<formatterVars, managerVars, structuredVars, streamVars>>

(* parser.filter_tokens(exclude_types, include_types)                      *)
ParserFilterTokens ==
    \E args \in FilterArguments :
        LET r == filter_tokens(parser, list_count, args[1], args[2]) IN
        /\ r.n <= MaxLists
        /\ parser' = r.p
        /\ list_count' = r.n
        /\ last_call' = Called("filter_tokens", parser.tokens_cached, NoList, r.list, <<>>)
        /\ UNCHANGED <<formatterVars, managerVars, structuredVars, streamVars>>

(* parser.tokens_to_source(tokens): with no argument, or with the list the *)
(* call before it returned.                                                *)
ParserTokensToSource ==
    \E tokens \in {None} \cup
                  (IF last_call.list = NoList THEN {} ELSE {SomeList(last_call.list)}) :
        /\ last_call' = Called("tokens_to_source", parser.tokens_cached, tokens.list,
                               NoList, tokens_to_source(parser, tokens))
        /\ UNCHANGED <<parser, list_count>>
        /\ UNCHANGED <<formatterVars, managerVars, structuredVars, streamVars>>

(* parser.source = source                                                  *)
ParserSetSource ==
    \E source \in ParserSources :
        /\ source # parser.source
        /\ parser' = [parser EXCEPT !.source = source]
        /\ last_call' = Called("set_source", parser.tokens_cached, NoList, NoList, <<>>)
        /\ UNCHANGED list_count
        /\ UNCHANGED <<formatterVars, managerVars, structuredVars, streamVars>>

(* parser.reset_source()                                                   *)
ParserResetSource ==
    LET r == reset_source(parser, list_count) IN
    /\ r.n <= MaxLists
    /\ parser' = r.p
    /\ list_count' = r.n
    /\ last_call' = Called("reset_source", parser.tokens_cached, NoList, NoList, <<>>)
    /\ UNCHANGED <<formatterVars, managerVars, structuredVars, streamVars>>

NextParser ==
    \/ ParserTokenize
    \/ ParserRefreshTokens
    \/ ParserFilterTokens
    \/ ParserTokensToSource
    \/ ParserSetSource
    \/ ParserResetSource

SpecParser == InitParser /\ [][NextParser]_vars

(* The cached tokens are the tokens of the text the parser's lexer was     *)
(* built over.                                                             *)
CacheIsOfLexerSource ==
    parser.tokens_cached => parser.tokens.items = Tokenize(parser.lexer.source)

(* C13: for every source text s, a Parser over s gives                     *)
(* tokens_to_source(tokenize()) = s.                                       *)
C13_TokensToSourceRoundTrip ==
    ( /\ last_call.op = "tokens_to_source"
      /\ parser.tokens_cached
      /\ last_call.arg = parser.tokens
      /\ parser.source = parser.original_source
      /\ parser.lexer.source = parser.source ) =>
        last_call.text = parser.source

(* C15: tokenize() lexes once: the first call drains the parser's lexer    *)
(* into a new list and caches it; every call made while the cache flag is  *)
(* set returns that very list (same identity, same items) and changes      *)
(* nothing; only refresh_tokens() and reset_source() replace the cached    *)
(* list.                                                                   *)
C15_TokenizeReturnsCache ==
    [][ /\ (last_call'.op = "tokenize" /\ parser.tokens_cached) =>
               /\ last_call'.list = parser.tokens
               /\ parser' = parser
               /\ list_count' = list_count
        /\ (last_call'.op = "tokenize" /\ ~parser.tokens_cached) =>
               /\ last_call'.list = parser'.tokens
               /\ parser'.tokens.id = list_count + 1
               /\ parser'.tokens.items = Tokenize(parser.lexer.source)
               /\ parser'.tokens_cached
        /\ (parser.tokens_cached /\ parser'.tokens # parser.tokens) =>
               last_call'.op \in {"refresh_tokens", "reset_source"}
      ]_vars

(* tokenize() was called twice in a row with the cache set, on a parser    *)
(* whose source was reassigned after the first lexing.                     *)
C15_Witness ==
    /\ last_call.op = "tokenize" /\ last_call.prev = "tokenize"
    /\ last_call.cached_before
    /\ last_call.list.items # <<>>
    /\ parser.source # parser.lexer.source

(* C16: refresh_tokens() replaces the cached list by a new list, which it  *)
(* returns, holding the tokens of the current parser.source; so after a    *)
(* reassignment of parser.source and refresh_tokens() the cached tokens    *)
(* are the tokens of the new source.                                       *)
C16_RefreshLexesCurrentSource ==
    last_call.op = "refresh_tokens" =>
        /\ last_call.list = parser.tokens
        /\ parser.tokens.id = list_count
        /\ parser.tokens.items = Tokenize(parser.source)
        /\ parser.tokens_cached

(* refresh_tokens() ran right after parser.source was reassigned, with     *)
(* tokens of the earlier source in the cache.                              *)
C16_Witness ==
    /\ last_call.op = "refresh_tokens" /\ last_call.prev = "set_source"
    /\ last_call.cached_before
    /\ parser.source # parser.original_source
    /\ parser.tokens.items # <<>>

(* The parser is as Parser(original_source) leaves it.                     *)
ParserIsInitial ==
    /\ parser.source = parser.original_source
    /\ parser.tokens.items = <<>>
    /\ ~parser.tokens_cached
    /\ parser.lexer = NewLexer(parser.original_source)

(* C17: whatever was called before, reset_source() leaves the source equal *)
(* to the constructor source, the token list empty and the cache flag      *)
(* false, the constructor source itself is never changed, and a tokenize() *)
(* that follows returns the tokens of the constructor source.              *)
C17_ResetRestoresInitialState ==
    [][ /\ last_call'.op = "reset_source" => ParserIsInitial'
        /\ parser'.original_source = parser.original_source
        /\ (last_call.op = "reset_source" /\ last_call'.op = "tokenize") =>
               last_call'.list.items = Tokenize(parser.original_source)
      ]_vars

(* reset_source() ran on a parser whose source had been reassigned and     *)
(* whose cache was set.                                                    *)
C17_Witness ==
    /\ last_call.op = "reset_source" /\ last_call.prev = "set_source"
    /\ last_call.cached_before
    /\ parser.original_source # <<>>

----------------------------------------------------------------------------
(* TokenStream (parsing/token_stream.py) and PathsDatParser                *)
(* (study_manager/paths_parser.py). A path is the sequence of characters   *)
(* str(path) gives; a dict is a function from its keys.                    *)

NoText == [given |-> FALSE, text |-> <<>>]
SomeText(text) == [given |-> TRUE, text |-> text]

TokenStream(tokens, source) == [tokens |-> tokens, source |-> source, index |-> 0]

stream_eof(ts) == ts.index >= Len(ts.tokens)

(* peek that indexes the list as Python does, wrapping negative positions. *)
stream_peek_wraps(ts, offset) ==
    LET idx == ts.index + offset IN
    IF idx >= Len(ts.tokens) \/ idx < 0 - Len(ts.tokens) THEN NoToken
    ELSE IF idx < 0 THEN ts.tokens[Len(ts.tokens) + idx + 1]
    ELSE ts.tokens[idx + 1]

stream_peek(ts, offset) ==
    LET idx == ts.index + offset IN
    IF idx < 0 \/ idx >= Len(ts.tokens) THEN NoToken ELSE ts.tokens[idx + 1]

stream_advance(ts) ==
    LET token == stream_peek(ts, 0) IN
    IF token = NoToken
    THEN [ts |-> ts, tok |-> NoToken, exc |-> "ValueError"]
    ELSE [ts |-> [ts EXCEPT !.index = ts.index + 1], tok |-> token, exc |-> "none"]

stream_check(ts, token_type, text, case_sensitive) ==
    LET token == stream_peek(ts, 0) IN
    IF token = NoToken \/ token.type # token_type THEN FALSE
    ELSE IF ~text.given THEN TRUE
    ELSE LET token_text == to_byte_slice(token, ts.source) IN
         IF case_sensitive THEN token_text = text.text
         ELSE lower(token_text) = lower(text.text)

(* expect that advances before it looks at the token.                     *)
stream_expect_advances_first(ts, token_type, text, case_sensitive) ==
    IF ~stream_check(ts, token_type, text, case_sensitive)
    THEN [ts |-> stream_advance(ts).ts, tok |-> NoToken, exc |-> "ValueError"]
    ELSE stream_advance(ts)

stream_expect(ts, token_type, text, case_sensitive) ==
    IF ~stream_check(ts, token_type, text, case_sensitive)
    THEN [ts |-> ts, tok |-> NoToken, exc |-> "ValueError"]
    ELSE stream_advance(ts)

(* Parser.remove_comments_and_whitespace()                                 *)
remove_comments_and_whitespace(p, n) ==
    filter_tokens(p, n, SomeTypes({"LINECOMMENT", "BLOCKCOMMENT", "WHITESPACE"}), None)

(* The current working directory of the process.                           *)
Cwd == <<"/", "w">>

(* Path(value).resolve() as str: an absolute path is itself, a relative    *)
(* one is taken from the working directory, the empty one is the working   *)
(* directory. The paths of the model have no ".", ".." or doubled          *)
(* separators and the file system has no symbolic links.                   *)
resolve(value) ==
    IF value = <<>> THEN Cwd
    ELSE IF Head(value) = "/" THEN value
    ELSE Cwd \o <<"/">> \o value

strip_quotes(value) ==
    IF Len(value) >= 2 /\ value[1] = value[Len(value)] /\ value[1] \in {"\"", "'"}
    THEN SubSeq(value, 2, Len(value) - 1)
    ELSE value

(* d[k] = v on a dict.                                                     *)
DictSet(d, k, v) == [x \in DOMAIN d \cup {k} |-> IF x = k THEN v ELSE d[x]]

(* PathsDatParser.__init__                                                 *)
NewPathsDatParser(source, id) ==
    [type |-> "PathsDatParser",
     source |-> source,
     original_source |-> source,
     lexer |-> NewLexer(source),
     tokens |-> [id |-> id, items |-> <<>>],
     tokens_cached |-> FALSE,
     data |-> EmptyDict]

(* The while loop of parse(): one (name, path) record per iteration.       *)
RECURSIVE parse_loop(_, _, _)
parse_loop(stream, data, source) ==
    IF stream_eof(stream) THEN [data |-> data, exc |-> "none"]
    ELSE LET name_r == stream_expect(stream, "IDENT", NoText, TRUE) IN
         IF name_r.exc # "none" THEN [data |-> data, exc |-> name_r.exc]
         ELSE LET path_r == stream_expect(name_r.ts, "STRING", NoText, TRUE) IN
              IF path_r.exc # "none" THEN [data |-> data, exc |-> path_r.exc]
              ELSE LET name == to_byte_slice(name_r.tok, source)
                       raw_path == to_byte_slice(path_r.tok, source)
                       path_value == strip_quotes(raw_path)
                   IN parse_loop(path_r.ts, DictSet(data, name, resolve(path_value)), source)

(* PathsDatParser.parse(): the parser afterwards, the number of lists      *)
(* created, and the exception that escaped, if any.                        *)
parse_return(f, r) == [p |-> [f.p EXCEPT !.data = r.data], n |-> f.n, exc |-> r.exc]
parse_tokens(f) ==
    parse_return(f, parse_loop(TokenStream(f.list.items, f.p.source), f.p.data, f.p.source))
parse(p, n) == parse_tokens(remove_comments_and_whitespace(p, n))

(* Pieces of paths.dat text: records, a relative path, an empty path, a    *)
(* record whose string is not closed, lone names and strings, separators   *)
(* and a comment.                                                          *)
PathsLexicon ==
    { <<"a", " ", "\"", "/", "x", "\"">>,
      <<"a", " ", "\"", "y", "\"">>,
      <<"b", "\n", "\"", "/", "x", "\"">>,
      <<"b", " ", "\"", "\"">>,
      <<"a", " ", "\"", "z">>,
      <<"b">>,
      <<"\"", "/", "x", "\"">>,
      <<"\n">>,
      <<"/", "/", "c", "\n">>,
      <<";">> }

PathsSources == FragSources(PathsLexicon)

(* parser = PathsDatParser(source)                                         *)
InitPaths ==
    /\ FormatterIdle
    /\ StructuredIdle
    /\ StreamIdle
    /\ ManagerIdle
    /\ \E source \in PathsSources : parser = NewPathsDatParser(source, 1)
    /\ last_call = NoCall
    /\ list_count = 1

(* parser.parse()                                                          *)
PathsParse ==
    LET r == parse(parser, list_count) IN
    /\ raised = "none"
    /\ r.n <= MaxLists
    /\ parser' = r.p
    /\ list_count' = r.n
    /\ raised' = r.exc
    /\ last_call' = Called("parse", parser.tokens_cached, NoList, NoList, <<>>)
    /\ UNCHANGED <<lexer, yielded, stopped, fmt, hist, result, config>>
    /\ UNCHANGED <<managerVars, structuredVars, streamVars>>

NextPaths == PathsParse

SpecPaths == InitPaths /\ [][NextPaths]_vars

(* The tokens of the parser's source that are neither whitespace nor       *)
(* comments.                                                               *)
SignificantTokens ==
    SelectSeq(Tokenize(parser.source),
              LAMBDA tok : tok.type \notin {"WHITESPACE", "LINECOMMENT", "BLOCKCOMMENT"})

(* The tokens form zero or more (Identifier, String) pairs.                *)
IsRecordList(tokens) ==
    /\ Len(tokens) % 2 = 0
    /\ \A i \in 1..Len(tokens) :
           tokens[i].type = (IF i % 2 = 1 THEN "IDENT" ELSE "STRING")

(* The text of a token in the source.                                      *)
TextIn(tok, source) == Slice(source, tok.start_index, tok.end_index)

(* A text without its surrounding pair of double quotes.                   *)
Unquoted(text) ==
    IF Len(text) >= 2 /\ text[1] = "\"" /\ text[Len(text)] = "\""
    THEN SubSeq(text, 2, Len(text) - 1)
    ELSE text

(* C18: parse() returns normally exactly when the tokens of the source     *)
(* that are neither whitespace nor comments form zero or more              *)
(* (Identifier, String) pairs, and raises ValueError otherwise; when it    *)
(* returns, the names of the result are the identifiers, and each name     *)
(* maps to the path its last record gives: the text of the string token    *)
(* without its surrounding quotes.                                         *)
C18_ParseAcceptsRecordLists ==
    last_call.op = "parse" =>
        LET tokens == SignificantTokens IN
        /\ raised = (IF IsRecordList(tokens) THEN "none" ELSE "ValueError")
        /\ raised = "none" =>
               /\ DOMAIN parser.data =
                      {TextIn(tokens[i], parser.source) : i \in {j \in 1..Len(tokens) : j % 2 = 1}}
               /\ \A i \in 1..Len(tokens) :
                      ( /\ i % 2 = 1
                        /\ \A j \in (i + 1)..Len(tokens) :
                               j % 2 = 1 =>
                                   TextIn(tokens[j], parser.source) # TextIn(tokens[i], parser.source) ) =>
                          parser.data[TextIn(tokens[i], parser.source)] =
                              resolve(Unquoted(TextIn(tokens[i + 1], parser.source)))

----------------------------------------------------------------------------
(* PathsDatHistory and PathsDatManager (study_manager/manager.py). The     *)
(* manager works on a world: the text of its paths.dat file, the other     *)
(* files of the file system with their contents, the history object and    *)
(* the history file. One paths.dat file is managed; known tells whether    *)
(* the history has a key for it.                                           *)

MaxEntries == 3

AsciiOrder ==
    <<"0", "1", "2", "3", "4", "5", "6", "7", "8", "9", "D", "E", "N", "_",
      "a", "b", "c", "d", "e", "f", "g", "h", "i", "j", "k", "l", "m",
      "n", "o", "p", "q", "r", "s", "t", "u", "v", "w", "x", "y", "z">>

ord(c) == CHOOSE i \in 1..Len(AsciiOrder) : AsciiOrder[i] = c

(* s < t on strings.                                                       *)
RECURSIVE str_less(_, _)
str_less(s, t) ==
    IF t = <<>> THEN FALSE
    ELSE IF s = <<>> THEN TRUE
    ELSE IF s[1] # t[1] THEN ord(s[1]) < ord(t[1])
    ELSE str_less(Tail(s), Tail(t))

(* sorted(keys)                                                            *)
RECURSIVE sorted(_)
sorted(keys) ==
    IF keys = {} THEN <<>>
    ELSE LET first == CHOOSE k \in keys : \A other \in keys \ {k} : str_less(k, other)
         IN <<first>> \o sorted(keys \ {first})

(* "\n".join(lines)                                                        *)
RECURSIVE join_lines(_)
join_lines(lines) ==
    IF lines = <<>> THEN <<>>
    ELSE IF Len(lines) = 1 THEN lines[1]
    ELSE lines[1] \o <<"\n">> \o join_lines(Tail(lines))

(* PathsDatParser.write: the text written to the file.                     *)
write(data) ==
    LET names == sorted(DOMAIN data)
        lines == [i \in 1..Len(names) |->
                     names[i] \o <<" ", "\"">> \o data[names[i]] \o <<"\"">>]
    IN join_lines(lines) \o <<"\n">>

(* Path.name: the last component of a path.                                *)
path_name(path) ==
    LET slashes == {i \in 1..Len(path) : path[i] = "/"}
        last == IF slashes = {} THEN 0 ELSE CHOOSE i \in slashes : \A j \in slashes : j <= i
    IN SubSeq(path, last + 1, Len(path))

(* The directories of the file system.                                     *)
Directories == {<<"/", "l">>}

(* time.time() at the moment an entry is appended to entries: timestamps  *)
(* are kept up to their order within a list.                               *)
time(entries) == Len(entries) + 1

(* PathsDatHistory.get_file_history: creates the key of the file.          *)
get_file_history(h) == [h EXCEPT !.known = TRUE]

record_replaces_last(h, name, path) ==
    LET h1 == get_file_history(h)
        entries == IF name \in DOMAIN h1.entries THEN h1.entries[name] ELSE <<>>
        kept == IF entries = <<>> THEN <<>> ELSE SubSeq(entries, 1, Len(entries) - 1)
    IN [h1 EXCEPT !.entries = DictSet(h1.entries, name,
            Append(kept, [timestamp |-> time(kept), path |-> path]))]

(* record that appends an entry whatever the last one holds.               *)
record_always_appends(h, name, path) ==
    LET h1 == get_file_history(h)
        entries == IF name \in DOMAIN h1.entries THEN h1.entries[name] ELSE <<>>
    IN [h1 EXCEPT !.entries = DictSet(h1.entries, name,
            Append(entries, [timestamp |-> time(entries), path |-> path]))]

(* PathsDatHistory.record with str(path) = path.                           *)
record(h, name, path) ==
    LET h1 == get_file_history(h)
        entries == IF name \in DOMAIN h1.entries THEN h1.entries[name] ELSE <<>>
    IN IF entries # <<>> /\ entries[Len(entries)].path = path
       THEN [h1 EXCEPT !.entries = DictSet(h1.entries, name, entries)]
       ELSE [h1 EXCEPT !.entries = DictSet(h1.entries, name,
                Append(entries, [timestamp |-> time(entries), path |-> path]))]

(* The loop of update_from_paths over paths.items().                       *)
RECURSIVE record_all(_, _, _)
record_all(h, paths, names) ==
    IF names = {} THEN h
    ELSE LET n == CHOOSE n \in names : TRUE
         IN record_all(record(h, n, paths[n]), paths, names \ {n})

(* PathsDatHistory.update_from_paths: the history afterwards; save()       *)
(* writes it to the history file.                                          *)
update_from_paths(h, paths) ==
    record_all(get_file_history(h), paths, DOMAIN paths)

save(h) == [exists |-> TRUE, data |-> h]

(* The world of a manager.                                                 *)
World(text, fs, h, disk) ==
    [paths_dat |-> text, files |-> fs, history |-> h, history_disk |-> disk]

Outcome(w, exc) == [w |-> w, exc |-> exc]

(* save() after the history became h.                                      *)
stored(w, h) == [w EXCEPT !.history = h, !.history_disk = save(h)]

(* PathsDatManager.get_paths once the text is parsed (r): the parsed       *)
(* paths, the world afterwards and the exception that escaped, if any.     *)
get_paths_parsed(w, track_history, r) ==
    IF r.exc # "none" THEN [w |-> w, paths |-> EmptyDict, exc |-> r.exc]
    ELSE IF track_history
    THEN [w |-> stored(w, update_from_paths(w.history, r.p.data)),
          paths |-> r.p.data, exc |-> "none"]
    ELSE [w |-> w, paths |-> r.p.data, exc |-> "none"]

(* The names and the paths written to paths.dat by hand or recorded by a   *)
(* direct caller of the history: an absolute path of an existing file and, *)
(* for the first name, a relative path, which resolves to a file that does *)
(* not exist.                                                              *)
Names == {<<"a">>, <<"b">>}
GivenPaths(name) ==
    IF name = <<"a">> THEN {<<"/", "x">>, <<"y">>} ELSE {<<"/", "x">>}

(* parser = PathsDatParser(source); parser.parse() for each text that      *)
(* paths.dat can hold: the names present map to given paths, to their      *)
(* resolved forms or to copies in a directory. Computed once per text.     *)
parsed ==
    LET given == UNION {GivenPaths(name) : name \in Names}
        resolved == {resolve(path) : path \in given}
        copies == {dir \o <<"/">> \o path_name(path) :
                      dir \in Directories, path \in resolved}
        values == given \cup resolved \cup copies
        texts == UNION {{write(data) : data \in [names -> values]} :
                           names \in SUBSET Names}
    IN [text \in texts |-> parse(NewPathsDatParser(text, 1), 1)]

(* PathsDatManager.get_paths                                               *)
get_paths(w, track_history) ==
    get_paths_parsed(w, track_history, parsed[w.paths_dat])

(* PathsDatManager._write_paths_dat followed by                            *)
(* history.update_from_paths, the common tail of the rewriting operations. *)
write_and_record(w, current_paths) ==
    stored([w EXCEPT !.paths_dat = write(current_paths)],
           update_from_paths(w.history, current_paths))

make_local_write_no_copy(w, name, paths, source_path, destination) ==
    Outcome(write_and_record(w, DictSet(paths, name, resolve(destination))), "none")
(* make_local from the copy on: destination.write_bytes(...), the new      *)
(* entry of current_paths, the rewrite and the history update.             *)
make_local_write(w, name, paths, source_path, destination) ==
    Outcome(write_and_record(
                [w EXCEPT !.files = DictSet(w.files, destination, w.files[source_path])],
                DictSet(paths, name, resolve(destination))),
            "none")

(* make_local from the check of the source path on.                        *)
make_local_copy(w, name, dir, paths, source_path) ==
    IF source_path \notin DOMAIN w.files THEN Outcome(w, "FileNotFoundError")
    ELSE make_local_write(w, name, paths, source_path,
                          dir \o <<"/">> \o path_name(source_path))

make_local_from_tracked(w, name, dir, g) ==
    IF g.exc # "none" THEN Outcome(w, g.exc)
    ELSE IF name \notin DOMAIN g.paths
    THEN Outcome(stored(w, update_from_paths(w.history, g.paths)), "ValueError")
    ELSE make_local_copy(stored(w, update_from_paths(w.history, g.paths)),
                         name, dir, g.paths, resolve(g.paths[name]))
(* make_local from the result g of get_paths(track_history=False) on.      *)
make_local_from(w, name, dir, g) ==
    IF g.exc # "none" THEN Outcome(w, g.exc)
    ELSE IF name \notin DOMAIN g.paths THEN Outcome(w, "ValueError")
    ELSE make_local_copy(w, name, dir, g.paths, resolve(g.paths[name]))

(* make_local with the destination directory resolved.                     *)
make_local_in(w, name, dir) ==
    IF dir \notin Directories THEN Outcome(w, "NotADirectoryError")
    ELSE make_local_from(w, name, dir, get_paths(w, FALSE))

(* PathsDatManager.make_local                                              *)
make_local(w, name, destination_dir) == make_local_in(w, name, resolve(destination_dir))

(* The names of the history with at least two entries.                     *)
Revertible(h) == {n \in DOMAIN h.entries : Len(h.entries[n]) >= 2}

previous_paths_to_last(h, current_paths) ==
    [n \in DOMAIN current_paths \cup Revertible(h) |->
        IF n \in Revertible(h)
        THEN resolve(h.entries[n][Len(h.entries[n])].path)
        ELSE current_paths[n]]
(* The loop of revert_last_change: each name with two entries or more is   *)
(* set to the path of its second-to-last entry.                            *)
previous_paths(h, current_paths) ==
    [n \in DOMAIN current_paths \cup Revertible(h) |->
        IF n \in Revertible(h)
        THEN resolve(h.entries[n][Len(h.entries[n]) - 1].path)
        ELSE current_paths[n]]

(* revert_last_change from the result g of get_paths on.                   *)
revert_last_change_from(w, g) ==
    IF g.exc # "none" THEN Outcome(w, g.exc)
    ELSE IF Revertible(w.history) = {} THEN Outcome(w, "none")
    ELSE Outcome(write_and_record(w, previous_paths(w.history, g.paths)), "none")

(* revert_last_change once get_file_history has returned.                  *)
revert_last_change_in(w) ==
    IF DOMAIN w.history.entries = {} THEN Outcome(w, "none")
    ELSE revert_last_change_from(w, get_paths(w, FALSE))

(* PathsDatManager.revert_last_change                                      *)
revert_last_change(w) ==
    revert_last_change_in([w EXCEPT !.history = get_file_history(w.history)])

(* revert_last_change_for_file from the result g of get_paths on.          *)
revert_for_file_from(w, name, previous_path, g) ==
    IF g.exc # "none" THEN Outcome(w, g.exc)
    ELSE Outcome(write_and_record(w, DictSet(g.paths, name, resolve(previous_path))), "none")

revert_for_file_in_to_last(w, name) ==
    IF name \notin DOMAIN w.history.entries \/ Len(w.history.entries[name]) < 2
    THEN Outcome(w, "none")
    ELSE revert_for_file_from(w, name,
             w.history.entries[name][Len(w.history.entries[name])].path,
             get_paths(w, FALSE))

(* revert_last_change_for_file that goes back to the oldest entry.         *)
revert_for_file_in_to_first(w, name) ==
    IF name \notin DOMAIN w.history.entries \/ Len(w.history.entries[name]) < 2
    THEN Outcome(w, "none")
    ELSE revert_for_file_from(w, name, w.history.entries[name][1].path,
                              get_paths(w, FALSE))

(* revert_last_change_for_file once get_file_history has returned.         *)
revert_for_file_in(w, name) ==
    IF name \notin DOMAIN w.history.entries \/ Len(w.history.entries[name]) < 2
    THEN Outcome(w, "none")
    ELSE revert_for_file_from(w, name,
             w.history.entries[name][Len(w.history.entries[name]) - 1].path,
             get_paths(w, FALSE))

(* PathsDatManager.revert_last_change_for_file                             *)
revert_last_change_for_file(w, name) ==
    revert_for_file_in([w EXCEPT !.history = get_file_history(w.history)], name)

(* The dicts from some of the names to given paths.                        *)
GivenMappings ==
    UNION {{data \in [names -> UNION {GivenPaths(n) : n \in Names}] :
               \A n \in names : data[n] \in GivenPaths(n)} : names \in SUBSET Names}

(* Texts of paths.dat written outside the manager.                         *)
PathsDatTexts == {write(data) : data \in GivenMappings}

(* Arguments of make_local: a directory and a path that is none.           *)
DestinationDirs == {<<"/", "l">>, <<"/", "f">>}

InitialFiles == DictSet(EmptyDict, <<"/", "x">>, "X")

CurrentWorld == World(paths_dat, files, history, history_disk)

(* No history list grows beyond the explored length.                       *)
WithinEntries(h) == \A n \in DOMAIN h.entries : Len(h.entries[n]) <= MaxEntries

(* The world and the exception an operation leaves.                        *)
Leaves(out) ==
    /\ WithinEntries(out.w.history)
    /\ paths_dat' = out.w.paths_dat
    /\ files' = out.w.files
    /\ history' = out.w.history
    /\ history_disk' = out.w.history_disk
    /\ raised' = out.exc
    /\ UNCHANGED <<lexer, yielded, stopped, fmt, hist, result, config>>
    /\ UNCHANGED <<parserVars, structuredVars, streamVars>>

ManagerCall(op, name) == [op |-> op, name |-> name]

(* manager = PathsDatManager(paths_dat, PathsDatHistory(history_path))     *)
(* over a paths.dat file and no history file.                              *)
InitManager ==
    /\ FormatterIdle
    /\ StructuredIdle
    /\ StreamIdle
    /\ ParserIdle
    /\ paths_dat \in PathsDatTexts
    /\ files = InitialFiles
    /\ history = NoHistory
    /\ history_disk = NoHistoryFile
    /\ mgr_call = NoManagerCall

(* paths.dat is rewritten outside the manager.                             *)
EditPathsDat ==
    \E text \in PathsDatTexts :
        /\ text # paths_dat
        /\ Leaves(Outcome([CurrentWorld EXCEPT !.paths_dat = text], "none"))
        /\ mgr_call' = ManagerCall("edit", <<>>)

(* history.record(paths_dat_path, name, path)                              *)
HistoryRecord ==
    \E name \in Names : \E path \in GivenPaths(name) :
        /\ Leaves(Outcome([CurrentWorld EXCEPT !.history = record(history, name, path)],
                          "none"))
        /\ mgr_call' = ManagerCall("record", name) @@ [path |-> path]

(* history.update_from_paths(paths_dat_path, paths)                        *)
HistoryUpdateFromPaths ==
    \E paths \in GivenMappings :
        /\ Leaves(Outcome(stored(CurrentWorld, update_from_paths(history, paths)), "none"))
        /\ mgr_call' = ManagerCall("update_from_paths", <<>>) @@ [paths |-> paths]

(* manager.get_paths(track_history)                                        *)
ManagerGetPaths ==
    \E track_history \in BOOLEAN :
        /\ Leaves(get_paths(CurrentWorld, track_history))
        /\ mgr_call' = ManagerCall(IF track_history THEN "get_paths"
                                   ELSE "get_paths_untracked", <<>>)

(* manager.make_local(name, destination_dir)                               *)
ManagerMakeLocal ==
    \E name \in Names, destination_dir \in DestinationDirs :
        /\ Leaves(make_local(CurrentWorld, name, destination_dir))
        /\ mgr_call' = ManagerCall("make_local", name)
                        @@ [dir |-> destination_dir,
                            was |-> IF name \in DOMAIN parsed[paths_dat].p.data
                                    THEN parsed[paths_dat].p.data[name]
                                    ELSE <<>>]

(* manager.revert_last_change()                                            *)
ManagerRevertLastChange ==
    /\ Leaves(revert_last_change(CurrentWorld))
    /\ mgr_call' = ManagerCall("revert_last_change", <<>>)

(* manager.revert_last_change_for_file(name)                               *)
ManagerRevertLastChangeForFile ==
    \E name \in Names :
        /\ Leaves(revert_last_change_for_file(CurrentWorld, name))
        /\ mgr_call' = ManagerCall("revert_last_change_for_file", name)

NextManager ==
    \/ EditPathsDat
    \/ HistoryRecord
    \/ HistoryUpdateFromPaths
    \/ ManagerGetPaths
    \/ ManagerMakeLocal
    \/ ManagerRevertLastChange
    \/ ManagerRevertLastChangeForFile

SpecManager == InitManager /\ [][NextManager]_vars

(* What a manager reading paths.dat gets: the parsed, resolved paths.      *)
ParsedPaths(text) == parsed[text].p.data

(* The entries recorded for a name, none when the name is unknown.         *)
EntriesOf(h, name) == IF name \in DOMAIN h.entries THEN h.entries[name] ELSE <<>>

IsPrefix(s, t) == Len(s) <= Len(t) /\ SubSeq(t, 1, Len(s)) = s

(* C19: each history list is append-only: over every step of record,       *)
(* update_from_paths, get_paths, make_local, revert_last_change and        *)
(* revert_last_change_for_file the list of every name keeps the entries it *)
(* had, unchanged and in place, at its front, so its length never          *)
(* decreases.                                                              *)
C19_HistoryAppendOnly ==
    [][ \A name \in DOMAIN history.entries :
            /\ name \in DOMAIN history'.entries
            /\ IsPrefix(history.entries[name], history'.entries[name])
      ]_vars

(* revert_last_change() has appended to a list that record and other       *)
(* operations had filled before.                                           *)
C19_Witness ==
    /\ mgr_call.op = "revert_last_change"
    /\ raised = "none"
    /\ \E name \in DOMAIN history.entries :
           /\ Len(history.entries[name]) = MaxEntries
           /\ history.entries[name][MaxEntries].path # history.entries[name][MaxEntries - 1].path

(* The step is revert_last_change_for_file(name).                          *)
IsRevertForFile(name) ==
    /\ mgr_call'.op = "revert_last_change_for_file"
    /\ mgr_call'.name = name

(* paths.dat after the step maps name to the path of its second-to-last    *)
(* entry and every other name as before.                                   *)
RevertedInPathsDat(name) ==
    LET entries == history.entries[name]
        before == ParsedPaths(paths_dat)
        after == ParsedPaths(paths_dat')
    IN /\ raised' = "none"
       /\ DOMAIN after = DOMAIN before \cup {name}
       /\ after[name] = resolve(entries[Len(entries) - 1].path)
       /\ \A other \in DOMAIN before \ {name} : after[other] = before[other]

(* The step changes neither paths.dat nor the recorded entries.            *)
NothingReverted ==
    /\ raised' = "none"
    /\ paths_dat' = paths_dat
    /\ history'.entries = history.entries
    /\ history_disk' = history_disk

IsRevertLastChange == mgr_call'.op = "revert_last_change"

IsMakeLocal(name, destination_dir) ==
    /\ mgr_call'.op = "make_local"
    /\ mgr_call'.name = name
    /\ mgr_call'.dir = destination_dir

(* C22: a make_local(name, dir) that returns has copied the bytes of the   *)
(* file name maps to into dir/<basename>, has rewritten paths.dat so that  *)
(* name maps to that copy and every other name to the path it had, and has *)
(* left the path of the copy as the last history entry of name.            *)
C22_MakeLocalCopies ==
    [][ \A name \in Names, destination_dir \in DestinationDirs :
            IsMakeLocal(name, destination_dir) /\ raised' = "none" =>
                LET before == ParsedPaths(paths_dat)
                    after == ParsedPaths(paths_dat')
                    source_path == before[name]
                    copy == resolve(destination_dir) \o <<"/">> \o path_name(source_path)
                    entries == EntriesOf(history', name)
                IN /\ name \in DOMAIN before
                   /\ source_path \in DOMAIN files
                   /\ copy \in DOMAIN files'
                   /\ files'[copy] = files[source_path]
                   /\ DOMAIN after = DOMAIN before
                   /\ after[name] = copy
                   /\ \A other \in DOMAIN before \ {name} : after[other] = before[other]
                   /\ entries # <<>>
                   /\ entries[Len(entries)].path = copy
      ]_vars

(* make_local("a", "/l") has copied /x to /l/x, where there was no file,   *)
(* and paths.dat maps a to the copy and b to /x as before.                 *)
C22_Witness ==
    /\ mgr_call.op = "make_local"
    /\ mgr_call.name = <<"a">>
    /\ raised = "none"
    /\ <<"/", "l", "/", "x">> \in DOMAIN files
    /\ files[<<"/", "l", "/", "x">>] = files[<<"/", "x">>]
    /\ DOMAIN ParsedPaths(paths_dat) = Names
    /\ ParsedPaths(paths_dat)[<<"a">>] = <<"/", "l", "/", "x">>
    /\ ParsedPaths(paths_dat)[<<"b">>] = <<"/", "x">>
    /\ Len(EntriesOf(history, <<"a">>)) >= 2
    /\ history.entries[<<"a">>][Len(history.entries[<<"a">>])].path = <<"/", "l", "/", "x">>
    /\ history.entries[<<"a">>][Len(history.entries[<<"a">>]) - 1].path = <<"/", "x">>

(* C23: make_local raises NotADirectoryError when the destination is not a *)
(* directory; otherwise ValueError when name is not an entry of paths.dat; *)
(* otherwise FileNotFoundError when the path of name is not an existing    *)
(* file; and it returns in no other case. In each of the three cases       *)
(* paths.dat, the files (those of the destination directory among them),   *)
(* the history and the history file are as before the call.                *)
C23_MakeLocalErrors ==
    [][ \A name \in Names, destination_dir \in DestinationDirs :
            IsMakeLocal(name, destination_dir) =>
                LET before == ParsedPaths(paths_dat)
                    expected ==
                        IF resolve(destination_dir) \notin Directories THEN "NotADirectoryError"
                        ELSE IF name \notin DOMAIN before THEN "ValueError"
                        ELSE IF before[name] \notin DOMAIN files THEN "FileNotFoundError"
                        ELSE "none"
                IN /\ raised' = expected
                   /\ expected # "none" =>
                          /\ paths_dat' = paths_dat
                          /\ files' = files
                          /\ history' = history
                          /\ history_disk' = history_disk
      ]_vars

(* make_local("a", "/l") has raised FileNotFoundError on a paths.dat that  *)
(* maps a to a path without a file, with a history recorded before.        *)
C23_Witness ==
    /\ mgr_call.op = "make_local"
    /\ mgr_call.name = <<"a">>
    /\ mgr_call.dir \in Directories
    /\ raised = "FileNotFoundError"
    /\ <<"a">> \in DOMAIN ParsedPaths(paths_dat)
    /\ ParsedPaths(paths_dat)[<<"a">>] \notin DOMAIN files
    /\ Len(EntriesOf(history, <<"a">>)) >= 1
    /\ history_disk.exists

(* The token is one that closes a level: a closing bracket or, in          *)
(* section-block mode, the identifier `end`.                               *)
IsClosingToken(tok) ==
    \/ IsClosing(tok)
    \/ fmt.indent_section_blocks /\ IsSectionWord(tok, END)

(* C24: in every state of a formatting pass the one-shot dedent flag is    *)
(* set only while the next token to be consumed is a closing token (a      *)
(* closing bracket, or `end` in section-block mode) and the iteration just *)
(* done is the newline whitespace in front of it, whose lookahead          *)
(* pre-applied the dedent; processing that token clears the flag, so the   *)
(* flag is never set when any later token is processed.                    *)
C24_FlagOnlyBeforeItsClosingToken ==
    (fmt # NoFormatter /\ fmt.dedent_accounted_for) =>
        /\ peek_token(fmt, 0) # NoToken
        /\ IsClosingToken(peek_token(fmt, 0))
        /\ hist # <<>>
        /\ hist[Len(hist)].index = fmt.current_token_index - 1
        /\ IsNewlineWhitespace(HistToken(Len(hist)))
        /\ ~hist[Len(hist)].flag_before

(* The next token after the one of hist[k] that is not whitespace, as a    *)
(* 1-based position in the token list (one past the list at its end).      *)
NextNonWhitespace(k) ==
    LET after == {j \in (hist[k].index + 2)..Len(fmt.tokens) :
                      fmt.tokens[j].type # "WHITESPACE"}
    IN IF after = {} THEN Len(fmt.tokens) + 1
       ELSE CHOOSE j \in after : \A other \in after : j <= other

(* C25: with indent_section_blocks=true a `begin` or `end` identifier is   *)
(* merged with a following identifier exactly when the next token that is  *)
(* not whitespace is an identifier, and then the iteration consumes the    *)
(* identifier, the whitespace tokens between the two and the second        *)
(* identifier and nothing else; in every other case the iteration consumes *)
(* the identifier alone, emits its text unchanged and leaves the indent    *)
(* level as it was, so that the tokens after it get iterations of their    *)
(* own.                                                                    *)
C25_MergeOnlyAcrossWhitespace ==
    (fmt # NoFormatter /\ fmt.indent_section_blocks) =>
        \A k \in 1..Len(hist) :
            (IsSectionWord(HistToken(k), BEGIN) \/ IsSectionWord(HistToken(k), END)) =>
                LET j == NextNonWhitespace(k) IN
                IF j <= Len(fmt.tokens) /\ fmt.tokens[j].type = "IDENT"
                THEN /\ hist[k].consumed = j - hist[k].index
                     /\ hist[k].emitted = HistText(k) \o <<" ">> \o
                            token_text_of(fmt.tokens[j], Source)
                ELSE /\ hist[k].consumed = 1
                     /\ hist[k].emitted = HistText(k)
                     /\ hist[k].level_after = hist[k].level_before

(* C26: with indent_section_blocks=false the identifiers `begin` and `end` *)
(* (in any letter case) are ordinary identifiers: the iteration of each    *)
(* consumes it alone, emits its text unchanged and changes neither the     *)
(* indent level nor the dedent flag, also when an identifier follows; the  *)
(* whitespace token after it gets an iteration of its own, emitted as one  *)
(* space or as a newline with the indentation; and a newline whitespace    *)
(* token in front of it changes neither the level nor the flag.            *)
C26_SectionWordsOrdinary ==
    (fmt # NoFormatter /\ ~fmt.indent_section_blocks) =>
        \A k \in 1..Len(hist) :
            LET i == hist[k].index
                word(tok) == IsSectionWord(tok, BEGIN) \/ IsSectionWord(tok, END)
            IN
            /\ hist[k].consumed = 1
            /\ word(HistToken(k)) =>
                   /\ hist[k].emitted = HistText(k)
                   /\ hist[k].level_after = hist[k].level_before
                   /\ hist[k].flag_after = hist[k].flag_before
            /\ (i > 0 /\ word(fmt.tokens[i]) /\ HistToken(k).type = "WHITESPACE") =>
                   /\ hist[k - 1].index = i - 1
                   /\ hist[k].emitted = CollapsedWhitespace(k)
            /\ (i + 1 < Len(fmt.tokens) /\ word(fmt.tokens[i + 2])
                    /\ IsNewlineWhitespace(HistToken(k))) =>
                   /\ hist[k].level_after = hist[k].level_before
                   /\ hist[k].flag_after = hist[k].flag_before
                   /\ hist[k].emitted = <<"\n">> \o Indentation(hist[k].level_before)

(* With section blocks off, an `end` on a new line at level 2 was emitted  *)
(* at that level, and an `end` followed by a space and an identifier was   *)
(* emitted alone.                                                          *)
C26_Witness ==
    /\ fmt # NoFormatter /\ ~fmt.indent_section_blocks
    /\ \E k \in 2..Len(hist) :
        /\ IsSectionWord(HistToken(k), END)
        /\ IsNewlineWhitespace(HistToken(k - 1))
        /\ hist[k - 1].level_before = 2
        /\ hist[k].level_after = 2
    /\ \E k \in 1..(Len(hist) - 2) :
        /\ IsSectionWord(HistToken(k), END)
        /\ HistToken(k + 1).type = "WHITESPACE"
        /\ HistToken(k + 2).type = "IDENT"

(* C27: every iteration of the format loop moves the token cursor forward  *)
(* by one token at least, the cursor never exceeds the length of the token *)
(* list (also after a begin/end pair has consumed several tokens at once), *)
(* and the pass ends exactly when the cursor equals that length: below it  *)
(* the loop cannot return, at it the loop returns and takes no iteration.  *)
C27_CursorAdvancesToTheEnd ==
    fmt # NoFormatter =>
        /\ \A k \in 1..Len(hist) :
               /\ hist[k].consumed >= 1
               /\ hist[k].index + hist[k].consumed <= Len(fmt.tokens)
               /\ k > 1 => hist[k].index = hist[k - 1].index + hist[k - 1].consumed
        /\ fmt.current_token_index <= Len(fmt.tokens)
        /\ hist # <<>> =>
               fmt.current_token_index = hist[Len(hist)].index + hist[Len(hist)].consumed
        /\ result.returned => fmt.current_token_index = Len(fmt.tokens)
        /\ ~result.returned =>
               IF fmt.current_token_index < Len(fmt.tokens)
               THEN ~ENABLED FormatReturn
               ELSE ENABLED FormatReturn /\ ~ENABLED FormatStep

(* The pass has returned after a last iteration in which an `end <name>`   *)
(* pair consumed the three last tokens of the list at once.                *)
C27_Witness ==
    /\ Returned
    /\ Len(hist) >= 2
    /\ hist[Len(hist)].consumed = 3
    /\ IsSectionWord(HistToken(Len(hist)), END)
    /\ hist[Len(hist)].index + 3 = Len(fmt.tokens)

(* C28: the Lexer cursor advances monotonically: current_index never       *)
(* decreases; every next() that returns a token strictly increases it, the *)
(* token is not empty, and no more than len(source) tokens are returned;   *)
(* once the end of the source is reached next() signals end-of-sequence,   *)
(* and every further next() does so again, returns no token and leaves the *)
(* lexer as it is.                                                         *)
C28_LexerAdvancesMonotonically ==
    /\ [](/\ Len(yielded) <= Len(Source)
          /\ \A i \in 1..Len(yielded) : yielded[i].start_index < yielded[i].end_index
          /\ stopped => ~is_in_bounds(lexer)
          /\ ~is_in_bounds(lexer) => next(lexer) = Raise(lexer, "StopIteration"))
    /\ [][/\ lexer'.current_index >= lexer.current_index
          /\ lexer'.source = lexer.source
          /\ Len(yielded') > Len(yielded) =>
                 /\ lexer'.current_index > lexer.current_index
                 /\ yielded' = Append(yielded, next(lexer).tok)
                 /\ yielded'[Len(yielded')].end_index = lexer'.current_index
          /\ stopped => (lexer' = lexer /\ yielded' = yielded /\ stopped')
       ]_vars

(* The iteration has ended after several tokens on a source whose last     *)
(* token, an unterminated string, left the cursor past the end.            *)
C28_Witness ==
    /\ fmt = NoFormatter /\ stopped
    /\ Len(yielded) >= 2
    /\ lexer.current_index > Len(Source)

(* The kind the dispatch rules give a token that starts at the 0-based     *)
(* offset start of the source, by the first rule that matches there.       *)
KindAt(start) ==
    LET char == Source[start + 1]
        ahead == IF start + 2 <= Len(Source) THEN Source[start + 2] ELSE ""
    IN IF char = "/" /\ ahead = "/" THEN "LINECOMMENT"
       ELSE IF char = "/" /\ ahead = "*" THEN "BLOCKCOMMENT"
       ELSE IF char \in Spaces THEN "WHITESPACE"
       ELSE IF char \in Letters \cup {"_"} THEN "IDENT"
       ELSE IF char \in Digits THEN "ICONST"
       ELSE IF char = "\"" THEN "STRING"
       ELSE "PUNCTUATOR"

(* C29: the kind of each token the Lexer produces is the one of the first  *)
(* rule that matches at the token's first character, in the order `//`,    *)
(* `/*`, whitespace, letter or underscore, digit, double quote, any other  *)
(* character; a Punctuator is exactly one character long, also for a `/`   *)
(* not followed by `/` or `*` and for a character outside the listed       *)
(* punctuators; and no token is a CharConstant, FloatConstant or           *)
(* EndOfInput.                                                             *)
C29_KindByFirstMatchingRule ==
    \A tok \in ProducedTokens :
        /\ tok.start_index < Len(Source)
        /\ tok.type = KindAt(tok.start_index)
        /\ tok.type = "PUNCTUATOR" => tok.end_index = tok.start_index + 1
        /\ tok.type \notin {"CCONST", "FCONST", "EOF"}

(* An exhausted iteration produced an identifier that starts with an       *)
(* underscore, a `/` punctuator in front of a letter, and punctuators for  *)
(* two characters outside the listed ones.                                 *)
C29_Witness ==
    /\ fmt = NoFormatter /\ stopped
    /\ \E i \in 1..Len(yielded) :
           yielded[i].type = "IDENT" /\ Source[yielded[i].start_index + 1] = "_"
    /\ \E i \in 1..(Len(yielded) - 1) :
           /\ yielded[i].type = "PUNCTUATOR" /\ token_text_of(yielded[i], Source) = <<"/">>
           /\ yielded[i + 1].type = "IDENT"
    /\ \E i \in 1..(Len(yielded) - 1) :
           /\ yielded[i].type = "PUNCTUATOR" /\ yielded[i + 1].type = "PUNCTUATOR"
           /\ Source[yielded[i].start_index + 1] \notin PunctuatorChars
           /\ Source[yielded[i + 1].start_index + 1] \notin PunctuatorChars

(* No token of the list is followed by one that continues its run.         *)
MaximalRuns(tokens) ==
    \A i \in 1..(Len(tokens) - 1) :
        /\ tokens[i].type = "WHITESPACE" => tokens[i + 1].type # "WHITESPACE"
        /\ tokens[i].type = "ICONST" => tokens[i + 1].type # "ICONST"
        /\ tokens[i].type = "IDENT" => tokens[i + 1].type \notin {"IDENT", "ICONST"}

(* C30: whitespace, identifier and integer-constant tokens are maximal     *)
(* runs: in every token sequence the Lexer produces no Whitespace token is *)
(* directly followed by a Whitespace token, no IntegerConstant by an       *)
(* IntegerConstant and no Identifier by an Identifier or IntegerConstant;  *)
(* so the token the formatter peeks at in the iteration of a newline       *)
(* whitespace token, when there is one, is not whitespace.                 *)
C30_TokensAreMaximalRuns ==
    /\ MaximalRuns(yielded)
    /\ fmt # NoFormatter =>
           /\ MaximalRuns(fmt.tokens)
           /\ \A k \in 1..Len(hist) :
                  (IsNewlineWhitespace(HistToken(k)) /\ hist[k].index + 1 < Len(fmt.tokens)) =>
                      /\ hist[k].consumed = 1
                      /\ fmt.tokens[hist[k].index + 2].type # "WHITESPACE"

(* The formatter has handled a whitespace token of several characters, a   *)
(* newline among them, and its lookahead found the closing bracket behind  *)
(* the run.                                                                *)
C30_Witness ==
    /\ fmt # NoFormatter
    /\ \E k \in 1..Len(hist) :
        /\ IsNewlineWhitespace(HistToken(k))
        /\ Len(HistText(k)) >= 2
        /\ hist[k].flag_after
        /\ IsClosing(fmt.tokens[hist[k].index + 2])

(* In a token list: each string token starts at a double quote and, when a *)
(* double quote follows in the source, ends right after the first one; the *)
(* next token starts there; and no comment token starts inside the span of *)
(* such a closed string.                                                   *)
StringsEndAtFirstQuote(tokens) ==
    \A i \in 1..Len(tokens) :
        tokens[i].type = "STRING" =>
            LET start == tokens[i].start_index
                quotes == {q \in (start + 2)..Len(Source) : Source[q] = "\""}
            IN /\ Source[start + 1] = "\""
               /\ quotes # {} =>
                      /\ tokens[i].end_index \in quotes
                      /\ \A q \in quotes : tokens[i].end_index <= q
                      /\ i < Len(tokens) => tokens[i + 1].start_index = tokens[i].end_index
                      /\ \A j \in 1..Len(tokens) :
                             tokens[j].type \in {"LINECOMMENT", "BLOCKCOMMENT"} =>
                                 ~(start < tokens[j].start_index
                                       /\ tokens[j].start_index < tokens[i].end_index)

(* C31: a String token starts at a double quote and ends immediately after *)
(* the first double quote that follows, whether or not a backslash stands  *)
(* in front of that quote; the characters after it are lexed as separate   *)
(* tokens, and a `//` or `/*` inside a closed string starts no comment     *)
(* token.                                                                  *)
C31_StringEndsAtFirstQuote ==
    /\ StringsEndAtFirstQuote(yielded)
    /\ fmt # NoFormatter => StringsEndAtFirstQuote(fmt.tokens)

(* An exhausted iteration produced a string that ends at a quote with a    *)
(* backslash in front of it, followed by a line comment made of the rest.  *)
C31_Witness ==
    /\ fmt = NoFormatter /\ stopped
    /\ \E i \in 1..(Len(yielded) - 1) :
           /\ yielded[i].type = "STRING"
           /\ yielded[i].end_index - yielded[i].start_index >= 3
           /\ Source[yielded[i].end_index - 1] = "\\"
           /\ yielded[i + 1].type = "LINECOMMENT"


----------------------------------------------------------------------------
(* The structured Formatter (formatting/formatter.py): the same token      *)
(* walk, emitting (token kind, text) pairs. peek_token and consume_token   *)
(* are the same methods as the ones of formatter.py.                       *)

StructuredFormatter(cfg, tokens) ==
    [type |-> "Formatter",
     tab_display_size |-> cfg.tab_display_size,
     use_tabs |-> cfg.use_tabs,
     indent_section_blocks |-> cfg.indent_section_blocks,
     indent_level |-> 0,
     output_strs |-> <<>>,
     tokens |-> tokens,
     current_token_index |-> 0,
     dedent_accounted_for |-> FALSE]

FormattedTokenOutput(token_type, text) == [token_type |-> token_type, text |-> text]

emit_output(g, token_type, text) ==
    [g EXCEPT !.output_strs = Append(@, FormattedTokenOutput(token_type, text))]

emit_indent_output(g) ==
    IF g.use_tabs
    THEN emit_output(g, "WHITESPACE", Repeat("\t", g.indent_level))
    ELSE emit_output(g, "WHITESPACE", Repeat(" ", g.indent_level * g.tab_display_size))

(* WHITESPACE branch that emits an intra-line run as it is.               *)
structured_whitespace_keeps_run(g, token_text, source) ==
    IF HasNewline(token_text)
    THEN emit_indent_output(emit_output(g, "WHITESPACE", <<"\n">>))
    ELSE emit_output(g, "WHITESPACE", token_text)

(* The WHITESPACE branch of format_tokens().                               *)
structured_whitespace(g, token_text, source) ==
    IF HasNewline(token_text)
    THEN LET g1 == emit_output(g, "WHITESPACE", <<"\n">>)
             next_token == peek_token(g1, 0)
             dedent ==
                 /\ next_token # NoToken
                 /\ \/ /\ next_token.type = "PUNCTUATOR"
                       /\ Slice(source, next_token.start_index, next_token.end_index)
                              \in {<<"}">>, <<"]">>, <<")">>}
                    \/ /\ g1.indent_section_blocks
                       /\ next_token.type = "IDENT"
                       /\ lower(Slice(source, next_token.start_index, next_token.end_index))
                              = <<"e", "n", "d">>
             g2 == IF dedent
                   THEN [g1 EXCEPT !.indent_level = Max(0, @ - 1),
                                   !.dedent_accounted_for = TRUE]
                   ELSE g1
         IN emit_indent_output(g2)
    ELSE emit_output(g, "WHITESPACE", <<" ">>)

(* The IDENT branch of format_tokens().                                    *)
structured_ident(g, token_text, source) ==
    IF ~g.indent_section_blocks THEN emit_output(g, "IDENT", token_text)
    ELSE
    LET offset == skip_whitespace(g, 1)
        next_token == peek_token(g, offset)
        next_text == Slice(source, next_token.start_index, next_token.end_index)
    IN
    IF next_token # NoToken /\ next_token.type = "IDENT"
       /\ lower(token_text) = <<"b", "e", "g", "i", "n">>
    THEN LET g1 == emit_output(g, "IDENT", token_text \o <<" ">> \o next_text)
             g2 == consume_token(consume_tokens(g1, offset)).f
         IN [g2 EXCEPT !.indent_level = @ + 1]
    ELSE IF next_token # NoToken /\ next_token.type = "IDENT"
            /\ lower(token_text) = <<"e", "n", "d">>
    THEN LET g1 == IF ~g.dedent_accounted_for
                   THEN [g EXCEPT !.indent_level = Max(0, @ - 1)]
                   ELSE g
             g2 == [g1 EXCEPT !.dedent_accounted_for = FALSE]
             g3 == emit_output(g2, "IDENT", token_text \o <<" ">> \o next_text)
         IN consume_token(consume_tokens(g3, offset)).f
    ELSE emit_output(g, "IDENT", token_text)

(* The PUNCTUATOR branch of format_tokens().                               *)
structured_punctuator(g, token_text) ==
    IF token_text \in {<<"{">>, <<"[">>, <<"(">>}
    THEN [emit_output(g, "PUNCTUATOR", token_text) EXCEPT !.indent_level = @ + 1]
    ELSE IF token_text \in {<<"}">>, <<"]">>, <<")">>}
    THEN LET g1 == IF ~g.dedent_accounted_for
                   THEN [g EXCEPT !.indent_level = Max(0, @ - 1)]
                   ELSE g
         IN emit_output([g1 EXCEPT !.dedent_accounted_for = FALSE],
                        "PUNCTUATOR", token_text)
    ELSE emit_output(g, "PUNCTUATOR", token_text)

(* One iteration of the while loop of format_tokens(): the formatter after *)
(* it, and whether the iteration left the loop with break.                 *)
format_tokens_iteration(g0, source) ==
    LET c == consume_token(g0)
        g == c.f
        token == c.tok
        token_text == Slice(source, token.start_index, token.end_index)
    IN
    IF token.type = "WHITESPACE"
    THEN [f |-> structured_whitespace(g, token_text, source), brk |-> FALSE]
    ELSE IF token.type = "IDENT"
    THEN [f |-> structured_ident(g, token_text, source), brk |-> FALSE]
    ELSE IF token.type = "PUNCTUATOR"
    THEN [f |-> structured_punctuator(g, token_text), brk |-> FALSE]
    ELSE IF token.type = "EOF"
    THEN [f |-> g, brk |-> TRUE]
    ELSE [f |-> emit_output(g, token.type, token_text), brk |-> FALSE]

(* "".join(token_output.text for token_output in formatted_tokens)         *)
join_texts(formatted_tokens) ==
    Concat([i \in 1..Len(formatted_tokens) |-> formatted_tokens[i].text])

----------------------------------------------------------------------------
(* The state machine of the two Formatters over one source: each is built  *)
(* over its own Lexer, runs its pass step by step, and is called again     *)
(* after it returned.                                                      *)

(* Sources and configurations given to both formatters: fragments of      *)
(* section and bracket text with section blocks on, and the longer texts   *)
(* under every configuration.                                              *)
FormatterInputs ==
    (FragSources(SectionLexicon \cup {<<"{">>}) \X Configs({4}, {TRUE}, {TRUE}))
    \cup (Corpus \X Configs(TabSizes, BOOLEAN, BOOLEAN))

InitFormatters ==
    /\ ParserIdle
    /\ ManagerIdle
    /\ StructuredIdle
    /\ StreamIdle
    /\ \E inp \in FormatterInputs : lexer = NewLexer(inp[1]) /\ config = inp[2]
    /\ yielded = <<>>
    /\ stopped = FALSE
    /\ fmt = NoFormatter
    /\ hist = <<>>
    /\ result = NoResult
    /\ raised = "none"

(* Formatter(Lexer(source), **config) of formatting/formatter.py.          *)
NewStructuredFormatter ==
    /\ sfmt = NoFormatter
    /\ raised = "none"
    /\ LegacyAtRest
    /\ LET r == list_lexer(NewLexer(lexer.source), <<>>) IN
       /\ raised' = r.exc
       /\ sfmt' = IF r.exc = "none" THEN StructuredFormatter(config, r.tokens) ELSE sfmt
    /\ UNCHANGED <<lexer, yielded, stopped, fmt, hist, result, config>>
    /\ UNCHANGED <<shist, sresult, calls>>
    /\ UNCHANGED <<parserVars, managerVars, streamVars>>

(* One iteration of the while loop of format_tokens().                     *)
FormatTokensStep ==
    /\ sfmt # NoFormatter
    /\ ~sresult.returned
    /\ raised = "none"
    /\ sfmt.current_token_index < Len(sfmt.tokens)
    /\ LET r == format_tokens_iteration(sfmt, lexer.source) IN
       /\ sfmt' = r.f
       /\ shist' = Append(shist,
              [index |-> r.f.current_token_index,
               level |-> r.f.indent_level,
               flag |-> r.f.dedent_accounted_for])
       /\ sresult' = IF r.brk
                     THEN [returned |-> TRUE, pairs |-> r.f.output_strs]
                     ELSE sresult
    /\ UNCHANGED <<formatterVars, calls>>
    /\ UNCHANGED <<parserVars, managerVars, streamVars>>

(* The loop guard fails and format_tokens() returns self.output_strs.      *)
FormatTokensReturn ==
    /\ sfmt # NoFormatter
    /\ ~sresult.returned
    /\ raised = "none"
    /\ ~(sfmt.current_token_index < Len(sfmt.tokens))
    /\ sresult' = [returned |-> TRUE, pairs |-> sfmt.output_strs]
    /\ UNCHANGED <<formatterVars, sfmt, shist, calls>>
    /\ UNCHANGED <<parserVars, managerVars, streamVars>>

(* A format() that starts each call by rewinding the cursor.               *)
FormatAgain_rewinds ==
    /\ fmt # NoFormatter
    /\ result.returned
    /\ StructuredAtRest
    /\ Len(calls.legacy) + 1 < MaxCalls
    /\ calls' = [calls EXCEPT !.legacy = Append(@, [text |-> result.text, f |-> fmt])]
    /\ result' = NoResult
    /\ fmt' = [fmt EXCEPT !.current_token_index = 0]
    /\ UNCHANGED <<lexer, yielded, stopped, hist, raised, config>>
    /\ UNCHANGED <<sfmt, shist, sresult>>
    /\ UNCHANGED <<parserVars, managerVars, streamVars>>

(* format() is called on the Formatter of formatter.py after a call        *)
(* returned: the returned text and the object are noted, and the loop of   *)
(* the new call is run by FormatStep and FormatReturn.                     *)
FormatAgain ==
    /\ fmt # NoFormatter
    /\ result.returned
    /\ StructuredAtRest
    /\ Len(calls.legacy) + 1 < MaxCalls
    /\ calls' = [calls EXCEPT !.legacy = Append(@, [text |-> result.text, f |-> fmt])]
    /\ result' = NoResult
    /\ UNCHANGED <<lexer, yielded, stopped, fmt, hist, raised, config>>
    /\ UNCHANGED <<sfmt, shist, sresult>>
    /\ UNCHANGED <<parserVars, managerVars, streamVars>>

(* format_tokens() is called on the structured Formatter after a call      *)
(* returned.                                                               *)
FormatTokensAgain ==
    /\ sfmt # NoFormatter
    /\ sresult.returned
    /\ LegacyAtRest
    /\ Len(calls.structured) + 1 < MaxCalls
    /\ calls' = [calls EXCEPT !.structured =
                    Append(@, [text |-> join_texts(sresult.pairs), f |-> sfmt])]
    /\ sresult' = NoStructuredResult
    /\ UNCHANGED <<formatterVars, sfmt, shist>>
    /\ UNCHANGED <<parserVars, managerVars, streamVars>>

NextFormatters ==
    \/ NewFormatter
    \/ FormatStep
    \/ FormatReturn
    \/ FormatAgain
    \/ NewStructuredFormatter
    \/ FormatTokensStep
    \/ FormatTokensReturn
    \/ FormatTokensAgain

SpecFormatters == InitFormatters /\ [][NextFormatters]_vars


(* C32: the two formatters are equivalent. The texts of the pairs that     *)
(* format_tokens() returned, concatenated, are the string that format()    *)
(* of formatter.py returned for the same source and configuration, and the *)
(* two passes go through the same sequence of (cursor, indent level,       *)
(* dedent flag) states: the states after their k-th iterations agree for   *)
(* every k both have reached, and complete passes have the same length.    *)
C32_FormattersEquivalent ==
    /\ \A k \in 1..Min(Len(hist), Len(shist)) :
          /\ shist[k].index = hist[k].index + hist[k].consumed
          /\ shist[k].level = hist[k].level_after
          /\ shist[k].flag = hist[k].flag_after
    /\ (result.returned /\ sresult.returned) =>
          /\ join_texts(sresult.pairs) = result.text
          /\ Len(shist) = Len(hist)

(* Both passes returned on a source with a merged section pair, an         *)
(* anticipated dedent and an indentation pair.                             *)
C32_Witness ==
    /\ result.returned
    /\ sresult.returned
    /\ \E k \in 1..Len(shist) : shist[k].flag
    /\ \E i \in 1..Len(sresult.pairs) :
          /\ sresult.pairs[i].token_type = "IDENT"
          /\ \E j \in 1..Len(sresult.pairs[i].text) : sresult.pairs[i].text[j] = " "
    /\ \E i \in 1..Len(sresult.pairs) :
          /\ sresult.pairs[i].token_type = "WHITESPACE"
          /\ sresult.pairs[i].text = <<"\t">>


(* C35: calling format() again on a Formatter that completed a pass        *)
(* returns the text of the first call and changes nothing. For every       *)
(* earlier call of either formatter that returned, the object is still as  *)
(* that call left it (cursor at the end of the token list, level, flag and *)
(* output unchanged, so no token is emitted twice), no iteration has run   *)
(* since, and a later call that returned has returned the same text.       *)
C35_SecondCallChangesNothing ==
    /\ \A i \in 1..Len(calls.legacy) :
          /\ fmt = calls.legacy[i].f
          /\ fmt.current_token_index = Len(fmt.tokens)
          /\ result.returned => result.text = calls.legacy[i].text
    /\ \A i \in 1..Len(calls.structured) :
          /\ sfmt = calls.structured[i].f
          /\ sfmt.current_token_index = Len(sfmt.tokens)
          /\ sresult.returned => join_texts(sresult.pairs) = calls.structured[i].text

(* Both formatters were called again, and the second calls returned, on a  *)
(* pass that left indentation open and emitted text.                       *)
C35_Witness ==
    /\ calls.legacy # <<>>
    /\ calls.structured # <<>>
    /\ result.returned
    /\ sresult.returned
    /\ fmt.indent_level > 0
    /\ Len(fmt.output) > 3
    /\ Len(sresult.pairs) > 3


----------------------------------------------------------------------------
(* The state machine of a TokenStream held by a direct caller, who goes on *)
(* using it after a call raised.                                           *)

stream_match(ts, token_type, text, case_sensitive) ==
    IF stream_check(ts, token_type, text, case_sensitive)
    THEN stream_advance(ts)
    ELSE [ts |-> ts, tok |-> NoToken, exc |-> "none"]

(* Pieces of the texts the streams are made from: names in both cases, a   *)
(* closed string and a punctuator.                                         *)
StreamLexicon ==
    {<<"a", " ">>, <<"B", " ">>, <<"\"", "x", "\"">>, <<";">>}

(* Arguments of check, expect and match, and offsets of peek.              *)
StreamArguments ==
    {"IDENT", "STRING", "ICONST"}
    \X {NoText, SomeText(<<"a">>), SomeText(<<"b">>), SomeText(<<"\"", "x", "\"">>)}
    \X BOOLEAN
PeekOffsets == (0 - MaxFrags - 1)..(MaxFrags + 1)

(* stream = parser.token_stream(parser.remove_comments_and_whitespace())   *)
InitStream ==
    /\ FormatterIdle
    /\ ParserIdle
    /\ ManagerIdle
    /\ StructuredIdle
    /\ \E source \in FragSources(StreamLexicon) :
          token_stream =
              TokenStream(remove_comments_and_whitespace(
                              NewPathsDatParser(source, 1), 1).list.items, source)
    /\ stream_call = NoStreamCall
    /\ slice_call = NoStreamCall

(* The record of a call that takes a kind, a text and a case flag.         *)
StreamCalled(op, arg, r) ==
    [op |-> op, before |-> token_stream.index, kind |-> arg[1], text |-> arg[2],
     case_sensitive |-> arg[3], tok |-> r.tok, exc |-> r.exc]

StreamEof ==
    /\ token_stream # NoStream
    /\ stream_call' = [op |-> "eof", before |-> token_stream.index,
                       returned |-> stream_eof(token_stream)]
    /\ UNCHANGED <<token_stream, slice_call>>
    /\ UNCHANGED <<formatterVars, parserVars, managerVars, structuredVars>>

StreamPeek ==
    /\ token_stream # NoStream
    /\ \E offset \in PeekOffsets :
          stream_call' = [op |-> "peek", before |-> token_stream.index,
                          offset |-> offset, tok |-> stream_peek(token_stream, offset)]
    /\ UNCHANGED <<token_stream, slice_call>>
    /\ UNCHANGED <<formatterVars, parserVars, managerVars, structuredVars>>

StreamCheck ==
    /\ token_stream # NoStream
    /\ \E arg \in StreamArguments :
          stream_call' = [op |-> "check", before |-> token_stream.index,
                          kind |-> arg[1], text |-> arg[2], case_sensitive |-> arg[3],
                          returned |-> stream_check(token_stream, arg[1], arg[2], arg[3])]
    /\ UNCHANGED <<token_stream, slice_call>>
    /\ UNCHANGED <<formatterVars, parserVars, managerVars, structuredVars>>

StreamAdvance ==
    /\ token_stream # NoStream
    /\ LET r == stream_advance(token_stream) IN
       /\ token_stream' = r.ts
       /\ stream_call' = [op |-> "advance", before |-> token_stream.index,
                          tok |-> r.tok, exc |-> r.exc]
    /\ UNCHANGED slice_call
    /\ UNCHANGED <<formatterVars, parserVars, managerVars, structuredVars>>

StreamExpect ==
    /\ token_stream # NoStream
    /\ \E arg \in StreamArguments :
          LET r == stream_expect(token_stream, arg[1], arg[2], arg[3]) IN
          /\ token_stream' = r.ts
          /\ stream_call' = StreamCalled("expect", arg, r)
    /\ UNCHANGED slice_call
    /\ UNCHANGED <<formatterVars, parserVars, managerVars, structuredVars>>

StreamMatch ==
    /\ token_stream # NoStream
    /\ \E arg \in StreamArguments :
          LET r == stream_match(token_stream, arg[1], arg[2], arg[3]) IN
          /\ token_stream' = r.ts
          /\ stream_call' = StreamCalled("match", arg, r)
    /\ UNCHANGED slice_call
    /\ UNCHANGED <<formatterVars, parserVars, managerVars, structuredVars>>

NextStream ==
    \/ StreamEof
    \/ StreamPeek
    \/ StreamCheck
    \/ StreamAdvance
    \/ StreamExpect
    \/ StreamMatch

SpecStream == InitStream /\ [][NextStream]_vars

(* The token at 0-based position i of the stream, or None.                 *)
StreamTokenAt(i) ==
    IF 0 <= i /\ i < Len(token_stream.tokens) THEN token_stream.tokens[i + 1] ELSE NoToken

(* Token tok has the kind and, when a text is given, the text asked for:   *)
(* the text of a token is its slice of the source.                         *)
TokenMatches(tok, kind, text, case_sensitive) ==
    /\ tok # NoToken
    /\ tok.type = kind
    /\ text.given =>
          IF case_sensitive
          THEN to_byte_slice(tok, token_stream.source) = text.text
          ELSE lower(to_byte_slice(tok, token_stream.source)) = lower(text.text)

(* C33: expect and match on a matching current token return it and move    *)
(* the index by exactly one; on a mismatch or an exhausted stream expect    *)
(* raises ValueError and match returns None, both leaving the index where   *)
(* it was; advance on an exhausted stream raises ValueError and leaves the  *)
(* index where it was.                                                     *)
C33_ExpectMatchAdvance ==
    LET c == stream_call
        current == StreamTokenAt(c.before)
    IN
    /\ c.op \in {"expect", "match"} =>
          IF TokenMatches(current, c.kind, c.text, c.case_sensitive)
          THEN c.exc = "none" /\ c.tok = current /\ token_stream.index = c.before + 1
          ELSE /\ c.exc = (IF c.op = "expect" THEN "ValueError" ELSE "none")
               /\ c.tok = NoToken
               /\ token_stream.index = c.before
    /\ (c.op = "advance" /\ c.before >= Len(token_stream.tokens)) =>
          c.exc = "ValueError" /\ token_stream.index = c.before

(* expect raised on a mismatch in the middle of a stream that match had    *)
(* advanced before.                                                        *)
C33_Witness ==
    /\ stream_call.op = "expect"
    /\ stream_call.exc = "ValueError"
    /\ stream_call.before = 1
    /\ stream_call.text.given
    /\ ~stream_call.case_sensitive
    /\ Len(token_stream.tokens) = 3

(* C36: the index of a TokenStream stays within 0..len(tokens) whatever is *)
(* called, also after calls that raised; eof() returns true exactly when   *)
(* the index equals len(tokens); peek, check and eof leave the index where *)
(* it was, and peek returns the token at index + offset, or None when that *)
(* position is negative or past the end.                                   *)
C36_IndexWithinBounds ==
    LET c == stream_call IN
    /\ 0 <= token_stream.index
    /\ token_stream.index <= Len(token_stream.tokens)
    /\ stream_eof(token_stream) <=> token_stream.index = Len(token_stream.tokens)
    /\ c.op = "eof" => c.returned = (c.before = Len(token_stream.tokens))
    /\ c.op \in {"peek", "check", "eof"} => token_stream.index = c.before
    /\ c.op = "peek" => c.tok = StreamTokenAt(c.before + c.offset)

(* peek with a negative offset that leaves the list, after the index moved *)
(* to the end of a stream of three tokens.                                 *)
C36_Witness ==
    /\ stream_call.op = "peek"
    /\ stream_call.before = 3
    /\ stream_call.before + stream_call.offset < 0
    /\ stream_call.tok = NoToken
    /\ Len(token_stream.tokens) = 3


----------------------------------------------------------------------------
(* Token.to_byte_slice called on tokens with any pair of offsets.          *)

SliceSources == SeqsUpTo({"a", "b"}, MaxLen)
SliceOffsets == (0 - MaxLen - 1)..(MaxLen + 1)

InitToken ==
    /\ FormatterIdle
    /\ ParserIdle
    /\ ManagerIdle
    /\ StructuredIdle
    /\ StreamIdle

(* Token(TokenType.IDENT, start, end, 0, 0, 0, 0).to_byte_slice(source)    *)
TokenToByteSlice ==
    /\ \E source \in SliceSources, start \in SliceOffsets, end \in SliceOffsets :
          slice_call' =
              [op |-> "to_byte_slice", source |-> source,
               start_index |-> start, end_index |-> end,
               returned |-> to_byte_slice([EOFToken EXCEPT !.type = "IDENT",
                                                           !.start_index = start,
                                                           !.end_index = end], source)]
    /\ UNCHANGED <<token_stream, stream_call>>
    /\ UNCHANGED <<formatterVars, parserVars, managerVars, structuredVars>>

NextToken == TokenToByteSlice

SpecToken == InitToken /\ [][NextToken]_vars

(* C34: to_byte_slice returns source[start_index:end_index] when           *)
(* 0 <= start_index <= end_index <= len(source), and the empty string for  *)
(* every other pair of offsets.                                            *)
C34_SliceOrEmpty ==
    LET c == slice_call IN
    c.op = "to_byte_slice" =>
        IF 0 <= c.start_index /\ c.start_index <= c.end_index
           /\ c.end_index <= Len(c.source)
        THEN c.returned = SubSeq(c.source, c.start_index + 1, c.end_index)
        ELSE c.returned = <<>>


(* No list of history h has two consecutive entries with the same path.    *)
NoRepeatedPath(h) ==
    \A name \in DOMAIN h.entries :
        \A k \in 1..(Len(h.entries[name]) - 1) :
            h.entries[name][k].path # h.entries[name][k + 1].path

(* This step recorded path for name: nothing was appended if the last      *)
(* entry of name held path, and exactly one entry holding path otherwise.  *)
RecordedAs(name, path) ==
    LET old == EntriesOf(history, name)
        new == EntriesOf(history', name)
    IN IF old # <<>> /\ old[Len(old)].path = path
       THEN new = old
       ELSE /\ Len(new) = Len(old) + 1
            /\ IsPrefix(old, new)
            /\ new[Len(new)].path = path

(* C37: starting from an empty history, no history list ever holds two     *)
(* consecutive entries with the same path; a record call, and              *)
(* update_from_paths for each name it is given, appends nothing when the   *)
(* last entry of the name holds the recorded path and exactly one entry    *)
(* otherwise (paths compared as the strings str(path) gives).              *)
C37_NoConsecutiveDuplicates ==
    /\ []NoRepeatedPath(history)
    /\ [][ /\ mgr_call'.op = "record" => RecordedAs(mgr_call'.name, mgr_call'.path)
           /\ mgr_call'.op = "update_from_paths" =>
                 \A name \in DOMAIN mgr_call'.paths :
                     RecordedAs(name, mgr_call'.paths[name])
      ]_vars

(* update_from_paths was given both names after the list of the first had  *)
(* grown to three entries, and left the lists as they were.                *)
C37_Witness ==
    /\ mgr_call.op = "update_from_paths"
    /\ DOMAIN mgr_call.paths = Names
    /\ Len(EntriesOf(history, <<"a">>)) = 3
    /\ EntriesOf(history, <<"a">>)[3].path = mgr_call.paths[<<"a">>]
    /\ Len(EntriesOf(history, <<"b">>)) = 1


(* paths.dat maps name to the path of the last history entry of name.      *)
AgreesWithLastEntry(text, h, name) ==
    /\ EntriesOf(h, name) # <<>>
    /\ name \in DOMAIN ParsedPaths(text)
    /\ ParsedPaths(text)[name] = resolve(h.entries[name][Len(h.entries[name])].path)

C39_RevertUndoesMakeLocal ==
    [][ \A name \in Names :
            ( /\ mgr_call.op = "make_local"
              /\ mgr_call.name = name
              /\ raised = "none"
              /\ IsRevertForFile(name) ) =>
            /\ raised' = "none"
            /\ name \in DOMAIN ParsedPaths(paths_dat')
            /\ ParsedPaths(paths_dat')[name] = mgr_call.was
      ]_vars


----------------------------------------------------------------------------
(* A paths file written by PathsDatParser.write and read back by parse.    *)

(* Absolute paths of files in the root directory, over characters a file   *)
(* name can hold, and the dicts from some of the names to them.            *)
RoundTripPaths == {<<"/">> \o tail : tail \in SeqsUpTo({"x", " ", "\""}, MaxLen - 1)}
RoundTripMappings == UNION {[names -> RoundTripPaths] : names \in SUBSET Names}

InitRoundTrip ==
    /\ FormatterIdle
    /\ ParserIdle
    /\ ManagerIdle
    /\ StructuredIdle
    /\ StreamIdle

(* parser = PathsDatParser(""); parser.data = paths; parser.write(file)    *)
WritePathsDat ==
    /\ \E paths \in RoundTripMappings :
          /\ parser' = [NewPathsDatParser(<<>>, 1) EXCEPT !.data = paths]
          /\ paths_dat' = write(paths)
          /\ mgr_call' = ManagerCall("_write_paths_dat", <<>>) @@ [paths |-> paths]
    /\ list_count' = 1
    /\ raised' = "none"
    /\ UNCHANGED <<lexer, yielded, stopped, fmt, hist, result, config>>
    /\ UNCHANGED <<last_call, files, history, history_disk>>
    /\ UNCHANGED <<structuredVars, streamVars>>

(* parser = PathsDatParser(file.read_text()); parser.parse()               *)
ReadPathsDat ==
    /\ mgr_call.op = "_write_paths_dat"
    /\ LET r == parse(NewPathsDatParser(paths_dat, 1), 1) IN
       /\ parser' = r.p
       /\ list_count' = r.n
       /\ raised' = r.exc
    /\ mgr_call' = [mgr_call EXCEPT !.op = "parse"]
    /\ UNCHANGED <<lexer, yielded, stopped, fmt, hist, result, config>>
    /\ UNCHANGED <<last_call, paths_dat, files, history, history_disk>>
    /\ UNCHANGED <<structuredVars, streamVars>>

NextRoundTrip == WritePathsDat \/ ReadPathsDat

SpecRoundTrip == InitRoundTrip /\ [][NextRoundTrip]_vars

(* C40: write followed by parse is a round trip: the parse of a written    *)
(* file raises nothing and returns the mapping that was written, with the  *)
(* same names and the same path for each.                                  *)
C40_WriteParseRoundTrip ==
    mgr_call.op = "parse" =>
        /\ raised = "none"
        /\ parser.data = mgr_call.paths

====
